---------------------------- MODULE Spec2Model ----------------------------
(***************************************************************************)
(* ThermoRover motion control: the joystick relay (joystick_queue), the    *)
(* control loop (motor_control_task), the drive mapper                     *)
(* (fuzzy_control_process), the drive configuration and its presets, and   *)
(* the H-bridge governor (motor_set_left / motor_set_right / motor_stop),  *)
(* the quadrature decoder and odometry (encoder_update, encoder_clear),    *)
(* and the telemetry loop (telemetry_task).                                *)
(*                                                                         *)
(* Numbers.  The C code computes in float.  The model computes in fixed    *)
(* point with three decimals (Scale = 1000): magnitude, dead_zone,         *)
(* turn_factor and the unit-range speeds are integers in thousandths;      *)
(* angles are whole degrees, multiples of 15, with sin and cos read from   *)
(* a table in thousandths.  Every float-to-int16 cast truncates towards    *)
(* zero, as in C.  Where the sine or cosine of the angle is 0 the model     *)
(* carries the residual of the float angle (FloatErr) through the sums     *)
(* that reach +-1.0f, where it decides the last count of the duty;         *)
(* elsewhere a duty computed in float can differ by one count from the     *)
(* fixed-point one where the float product falls just short of an          *)
(* integer.  Time is in milliseconds and advances in steps of one control  *)
(* period.                                                                 *)
(***************************************************************************)
EXTENDS Integers, Sequences, FiniteSets, TLC

VARIABLES
    \* ---- relay and control loop (main.c)
    joystick_queue,     \* the FreeRTOS queue: a sequence of joystick_cmd_t
    ctl_pc,             \* motor_control_task position: "recv" | "delay"
    ctl_wait,           \* ms the task has been blocked in its current call
    cb_pc,              \* websocket_control_callback: "idle" | "blocked"
    current_left_pwm,   \* last-commanded duty cells
    current_right_pwm,
    silence,            \* ms since the last push to the relay (capped)
    pushCount,          \* number of callback invocations so far
    dropped,            \* timestamps of the commands the callback discarded
    lastAct,            \* record of the last control cycle (observer)
    \* ---- drive configuration (fuzzy_control.c)
    current_config,     \* the shared fuzzy_config_t
    cfg_pc,             \* preset being written: [preset, next field index]
    proc_pc,            \* fuzzy_control_process position (field-wise reads)
    proc_in,            \* its (angle, magnitude) arguments
    proc_rd,            \* the configuration fields it has read so far
    \* ---- mapper calls
    motor_cmd,          \* motor_command_t output of the last call
    map_last,           \* arguments of the last call
    map_ref,            \* an earlier call kept for comparison (observer)
    \* ---- H-bridge governor (motor_control.c)
    left_motor,         \* [fwd, bwd] comparator values
    right_motor,
    mot_pc,             \* position inside motor_set_left / motor_set_right
    mot_call,           \* the running call: [side, duty, ret]
    mot_prev,           \* comparator pair of the other motor at call entry
    \* ---- quadrature encoders (encoder.c)
    left_encoder,       \* encoder_instance_t: [last_count, last_time_us,
    right_encoder,      \*                      rpm, distance_m]
    pcnt,               \* the two hardware pulse counters: [left, right]
    now_us,             \* esp_timer_get_time()
    upd_pc,             \* position inside encoder_update
    upd_loc,            \* its locals: [t, ok, count]
    turns,              \* number of sampling intervals elapsed so far
    moved,              \* true displacement of each wheel since its baseline
    strict_times,       \* per wheel: every sample since the last clear had
                        \* delta_time_us > 0 (observer)
    enc_obs,            \* record of the last encoder operation (observer)
    \* ---- control loop with failing actuator calls (main.c)
    cyc_ret,            \* esp_err_t results of the last cycle's motor calls
    fails,              \* number of cycles in which a motor call failed
    \* ---- telemetry loop (main.c)
    tel_pc,             \* telemetry_task position: "run" | "delay"
    tel_wait,           \* ms the task has spent in vTaskDelay
    tel_count,          \* snapshots handed to the sink so far
    telemetry,          \* the ws_telemetry_msg_t handed over last
    \* ---- runtime tunables and inbound messages (encoder.c, websocket_server.c)
    wheel_diameter_mm,  \* the wheel diameter used for odometry
    wheel_circumference_m,  \* its circumference, in tenths of a millimetre
    ws_obs,             \* record of the last inbound event (observer)
    \* ---- the mapper's scalar helpers, called on their own (fuzzy_control.c)
    dz_call,            \* last apply_dead_zone call: arguments and result
    dz_ref,             \* an earlier call kept for comparison (observer)
    norm,               \* normalize_angle in progress: position and angle
    \* ---- the two duty cells, store by store and read by read (main.c)
    cycle_pairs,        \* the (left, right) pairs recorded by whole cycles
    pending_pwm,        \* the pair the control cycle in progress records
    \* ---- start-up (main.c, websocket_server.c, wifi_manager.c)
    app_pc,             \* app_main's position
    start_pc,           \* per caller: position in websocket_server_start
    wifi_started,       \* esp_wifi_start has succeeded: events may arrive
    server,             \* the httpd handle: 0 is NULL
    httpd_running,      \* HTTP server instances httpd_start has started
    uri_handlers,       \* times the two URI handlers have been registered
    control_callback,   \* websocket_control_callback is registered
    queue_created,      \* joystick_queue is not NULL
    null_sends,         \* xQueueSend calls on a NULL joystick_queue
    tasks_created,      \* the two tasks have been created
    \* ---- the client table (websocket_server.c)
    connected_clients,  \* slot -> [fd, connected]
    client_count,       \* the running count of clients
    client_ops          \* add_client / remove_client calls so far

relayVars  == <<joystick_queue, ctl_pc, ctl_wait, cb_pc, current_left_pwm,
                current_right_pwm, silence, pushCount, dropped, lastAct>>
configVars == <<current_config, cfg_pc, proc_pc, proc_in, proc_rd>>
mapperVars == <<motor_cmd, map_last, map_ref>>
motorVars  == <<left_motor, right_motor, mot_pc, mot_call, mot_prev>>
encoderVars == <<left_encoder, right_encoder, pcnt, now_us, upd_pc, upd_loc,
                 turns, moved, strict_times, enc_obs>>
loopVars == <<cyc_ret, fails>>
telemetryVars == <<tel_pc, tel_wait, tel_count, telemetry>>
tunableVars == <<wheel_diameter_mm, wheel_circumference_m, ws_obs>>
helperVars == <<dz_call, dz_ref, norm>>
snapshotVars == <<cycle_pairs, pending_pwm>>
startupVars == <<app_pc, start_pc, wifi_started, server, httpd_running,
                 uri_handlers, control_callback, queue_created, null_sends,
                 tasks_created>>
clientVars == <<connected_clients, client_count, client_ops>>
platformVars == <<helperVars, snapshotVars, startupVars, clientVars>>
vars == <<relayVars, configVars, mapperVars, motorVars, encoderVars, loopVars,
          telemetryVars, tunableVars, platformVars>>

-----------------------------------------------------------------------------
(* Program constants *)

Scale == 10^3

MOTOR_CONTROL_RATE_HZ == 50

\* The argument of vTaskDelay: 1000 / MOTOR_CONTROL_RATE_HZ.
ControlPeriodMs == 1000 \div MOTOR_CONTROL_RATE_HZ

\* A receive timeout of ten periods instead of five.
RecvTimeoutMs_long == 10 * ControlPeriodMs

\* The timeout of xQueueReceive: pdMS_TO_TICKS(100).
RecvTimeoutMs == 100

\* xQueueCreate(10, sizeof(joystick_cmd_t)).
QueueLen == 10
MOTOR_PWM_RESOLUTION == 255

FUZZY_DEAD_ZONE == 80
FUZZY_MAX_DUTY == 255
FUZZY_MIN_DUTY == 35
FUZZY_TURN_FACTOR == 700
SmoothDamping == 700

Modes  == {"ARCADE", "TANK", "CAR", "SMOOTH"}
Curves == {"LINEAR", "QUADRATIC", "CUBIC", "SQRT"}

-----------------------------------------------------------------------------
(* Arithmetic helpers *)

Abs(x) == IF x < 0 THEN -x ELSE x

\* C's float-to-integer cast and the fixed-point quotient: towards zero.
TruncDiv(a, b) == IF a >= 0 THEN a \div b ELSE -((-a) \div b)

Mul(a, b) == TruncDiv(a * b, Scale)

\* The largest r in lo..hi with r*r <= n, by bisection (lo*lo <= n < (hi+1)^2).
RECURSIVE SqrtBetween(_, _, _)
SqrtBetween(n, lo, hi) ==
    IF lo >= hi THEN lo
    ELSE LET mid == (lo + hi + 1) \div 2
         IN  IF mid * mid <= n THEN SqrtBetween(n, mid, hi)
             ELSE SqrtBetween(n, lo, mid - 1)

\* sqrtf on thousandths: the largest r with r*r <= m*Scale.
ISqrt(m) == SqrtBetween(m * Scale, 0, m + Scale)

SinTable == [d \in {0, 15, 30, 45, 60, 75, 90} |->
               CASE d = 0  -> 0
                 [] d = 15 -> 259
                 [] d = 30 -> 500
                 [] d = 45 -> 707
                 [] d = 60 -> 866
                 [] d = 75 -> 966
                 [] d = 90 -> 1000]

\* sinf / cosf of a normalised angle in degrees.
SinDeg(a) ==
    LET h == a % 180
        v == IF h <= 90 THEN SinTable[h] ELSE SinTable[180 - h]
    IN  IF a % 360 < 180 THEN v ELSE -v

CosDeg(a) == SinDeg((a + 90) % 360)

-----------------------------------------------------------------------------
(* Drive Mapper: fuzzy_control.c *)

\* apply_dead_zone without the rejection branch.
apply_dead_zone_norej(magnitude, dead_zone) ==
    TruncDiv((magnitude - dead_zone) * Scale, Scale - dead_zone)

apply_dead_zone(magnitude, dead_zone) ==
    IF magnitude < dead_zone
    THEN 0
    ELSE TruncDiv((magnitude - dead_zone) * Scale, Scale - dead_zone)

\* A float result as IEEE-754 delivers it: a number in thousandths, NaN, or
\* an infinity.
Number(v) == [kind |-> "number", num |-> v]

NaN == [kind |-> "nan", num |-> 0]

Infinity == [kind |-> "inf", num |-> 0]

\* IEEE-754 division of a >= 0 by b >= 0: 0/0 is NaN and a/0 is +infinity.
FloatDiv(a, b) ==
    IF b # 0 THEN Number(TruncDiv(a * Scale, b))
    ELSE IF a = 0 THEN NaN
    ELSE Infinity

\* apply_dead_zone on every dead_zone a float can hold, 1.0 included, where
\* the divisor 1.0f - dead_zone is zero.
apply_dead_zone_ieee(magnitude, dead_zone) ==
    IF magnitude < dead_zone
    THEN Number(0)
    ELSE FloatDiv(magnitude - dead_zone, Scale - dead_zone)

apply_curve(magnitude, curve) ==
    CASE curve = "LINEAR"    -> magnitude
      [] curve = "QUADRATIC" -> Mul(magnitude, magnitude)
      [] curve = "CUBIC"     -> Mul(Mul(magnitude, magnitude), magnitude)
      [] curve = "SQRT"      -> ISqrt(magnitude)
      [] OTHER               -> magnitude

RECURSIVE normalize_angle(_)
normalize_angle(angle) ==
    IF angle < 0 THEN normalize_angle(angle + 360)
    ELSE IF angle >= 360 THEN normalize_angle(angle - 360)
    ELSE angle

clamp(value, min, max) ==
    IF value < min THEN min ELSE IF value > max THEN max ELSE value

\* Mutant: the floor lifts forward duties only.
apply_min_duty_forward(duty, min_duty) ==
    IF duty = 0 THEN 0
    ELSE IF duty > 0 /\ duty < min_duty THEN min_duty
    ELSE duty

apply_min_duty(duty, min_duty) ==
    IF duty = 0 THEN 0
    ELSE IF duty > 0 /\ duty < min_duty THEN min_duty
    ELSE IF duty < 0 /\ duty > -min_duty THEN -min_duty
    ELSE duty

\* Float residuals.  A JSON angle reaches the mapper as the float nearest
\* to it, and normalize_angle subtracts 2 pi in double and stores a float
\* again.  FloatErr is the offset of the float the mode functions work on
\* from the exact angle, in 10^-12 rad, for the angles whose sine or cosine
\* is 0: (float)(pi/2) lies 4.37e-8 above pi/2, (float)pi 8.74e-8 above pi
\* and (float)(3 pi/2) 1.19e-8 above 3 pi/2.  The other angles are carried
\* in thousandths only.
FloatErr(angle) ==
    CASE angle = 90  -> 43711
      [] angle = 180 -> 87423
      [] angle = 270 -> 11925
      [] OTHER       -> 0

\* cosf and sinf of that float minus CosDeg and SinDeg, in 10^-12, where
\* the table value is 0: cos(pi/2 + e) = -e, cos(3 pi/2 + e) = e,
\* sin(e) = e, sin(pi + e) = -e.
CosRes(a, err) ==
    CASE a = 90 -> -err [] a = 270 -> err [] OTHER -> 0

SinRes(a, err) ==
    CASE a = 0 -> err [] a = 180 -> -err [] OTHER -> 0

\* A residual times a factor given in thousandths.
MulRes(k, r) == TruncDiv(k * r, Scale)

\* 2^-25 in 10^-12: half the distance from 1.0f to the float below it.
HalfUlp == 29802

\* A float sum of v thousandths and residual r is short of +-1.0f: v is
\* +-1 and the residual takes off more than half an ulp, so the sum rounds
\* to a float below 1.0f in magnitude.  A residual that adds is rounded
\* away or clamped.
Short(v, r) ==
    \/ v = Scale /\ r < -HalfUlp
    \/ v = -Scale /\ r > HalfUlp

\* (int16_t)(speed * config->max_duty): the float product truncated
\* towards zero; a speed short of its thousandths loses the last count
\* where the product of the thousandths is whole.
Duty(speed, short, max_duty) ==
    TruncDiv(speed * max_duty
               - (IF ~short THEN 0 ELSE IF speed > 0 THEN 1 ELSE -1),
             Scale)

\* The mode functions take the configuration fields they read: turn_factor
\* once, max_duty once for each side; err is FloatErr of the angle.
process_arcade_mode(angle, err, magnitude, turn_factor, max_l, max_r) ==
    LET x == Mul(magnitude, CosDeg(angle))
        y == Mul(magnitude, SinDeg(angle))
        xr == MulRes(magnitude, CosRes(angle, err))
        yr == MulRes(magnitude, SinRes(angle, err))
        base_speed == y
        turn_rate == Mul(x, turn_factor)
        tr == MulRes(turn_factor, xr)
        left_speed == clamp(base_speed + turn_rate, -Scale, Scale)
        right_speed == clamp(base_speed - turn_rate, -Scale, Scale)
    IN  [left_duty |-> Duty(left_speed,
                            Short(base_speed + turn_rate, yr + tr), max_l),
         right_duty |-> Duty(right_speed,
                             Short(base_speed - turn_rate, yr - tr), max_r)]

process_tank_mode(angle, err, magnitude, turn_factor, max_l, max_r) ==
    LET x == Mul(magnitude, CosDeg(angle))
        y == Mul(magnitude, SinDeg(angle))
        xr == MulRes(magnitude, CosRes(angle, err))
        yr == MulRes(magnitude, SinRes(angle, err))
        left_speed == clamp(y + x, -Scale, Scale)
        right_speed == clamp(y - x, -Scale, Scale)
    IN  [left_duty |-> Duty(left_speed, Short(y + x, yr + xr), max_l),
         right_duty |-> Duty(right_speed, Short(y - x, yr - xr), max_r)]

\* Mutant: the wheel away from the turn is the one slowed down.
process_car_mode_outer(angle, err, magnitude, turn_factor, max_l, max_r) ==
    LET a == normalize_angle(angle)
        forward_component == SinDeg(a)
        turn_component == Abs(CosDeg(a))
        base_speed == forward_component
        reduction == Mul(turn_component, turn_factor)
        \* 1.0f - reduction is short of 1.0f
        short == Short(Scale - reduction,
                       -MulRes(turn_factor, Abs(CosRes(a, err))))
        cos_positive == CosDeg(a) > 0 \/ CosRes(a, err) > 0
        l0 == IF cos_positive THEN Mul(base_speed, Scale - reduction)
              ELSE base_speed
        r0 == IF cos_positive THEN base_speed
              ELSE Mul(base_speed, Scale - reduction)
        left_speed == Mul(l0, magnitude)
        right_speed == Mul(r0, magnitude)
    IN  [left_duty |-> Duty(left_speed, short /\ ~cos_positive, max_l),
         right_duty |-> Duty(right_speed, short /\ cos_positive, max_r)]

process_car_mode(angle, err, magnitude, turn_factor, max_l, max_r) ==
    LET a == normalize_angle(angle)
        forward_component == SinDeg(a)
        turn_component == Abs(CosDeg(a))
        base_speed == forward_component
        reduction == Mul(turn_component, turn_factor)
        \* 1.0f - reduction is short of 1.0f
        short == Short(Scale - reduction,
                       -MulRes(turn_factor, Abs(CosRes(a, err))))
        cos_positive == CosDeg(a) > 0 \/ CosRes(a, err) > 0
        l0 == IF cos_positive THEN base_speed
              ELSE Mul(base_speed, Scale - reduction)
        r0 == IF cos_positive THEN Mul(base_speed, Scale - reduction)
              ELSE base_speed
        left_speed == Mul(l0, magnitude)
        right_speed == Mul(r0, magnitude)
    IN  [left_duty |-> Duty(left_speed, short /\ ~cos_positive, max_l),
         right_duty |-> Duty(right_speed, short /\ cos_positive, max_r)]

\* Mutant: Smooth mode uses turn_factor as it is.
process_smooth_mode_undamped(angle, err, magnitude, turn_factor, max_l, max_r) ==
    LET smooth_turn_factor == turn_factor
        x == Mul(magnitude, CosDeg(angle))
        y == Mul(magnitude, SinDeg(angle))
        xr == MulRes(magnitude, CosRes(angle, err))
        yr == MulRes(magnitude, SinRes(angle, err))
        base_speed == y
        turn_rate == Mul(x, smooth_turn_factor)
        tr == MulRes(smooth_turn_factor, xr)
        left_speed == clamp(base_speed + turn_rate, -Scale, Scale)
        right_speed == clamp(base_speed - turn_rate, -Scale, Scale)
    IN  [left_duty |-> Duty(left_speed,
                            Short(base_speed + turn_rate, yr + tr), max_l),
         right_duty |-> Duty(right_speed,
                             Short(base_speed - turn_rate, yr - tr), max_r)]

process_smooth_mode(angle, err, magnitude, turn_factor, max_l, max_r) ==
    LET smooth_turn_factor == Mul(turn_factor, SmoothDamping)
        x == Mul(magnitude, CosDeg(angle))
        y == Mul(magnitude, SinDeg(angle))
        xr == MulRes(magnitude, CosRes(angle, err))
        yr == MulRes(magnitude, SinRes(angle, err))
        base_speed == y
        turn_rate == Mul(x, smooth_turn_factor)
        tr == MulRes(smooth_turn_factor, xr)
        left_speed == clamp(base_speed + turn_rate, -Scale, Scale)
        right_speed == clamp(base_speed - turn_rate, -Scale, Scale)
    IN  [left_duty |-> Duty(left_speed,
                            Short(base_speed + turn_rate, yr + tr), max_l),
         right_duty |-> Duty(right_speed,
                             Short(base_speed - turn_rate, yr - tr), max_r)]

\* The fields of current_config as one call of fuzzy_control_process reads
\* them: max_duty and min_duty are read once for each side.
ConfigReads(c) ==
    [dead_zone |-> c.dead_zone, curve |-> c.curve, mode |-> c.mode,
     turn_factor |-> c.turn_factor,
     max_l |-> c.max_duty, max_r |-> c.max_duty,
     min_l |-> c.min_duty, min_r |-> c.min_duty,
     invert_left |-> c.invert_left, invert_right |-> c.invert_right]

\* fuzzy_control_process on the field values rd it has read.
ProcessReads(angle, magnitude, rd) ==
    LET m0 == apply_dead_zone(magnitude, rd.dead_zone)
        m  == apply_curve(m0, rd.curve)
        a  == normalize_angle(angle)
        e  == FloatErr(angle)
        tf == rd.turn_factor
        o  == CASE rd.mode = "ARCADE" ->
                     process_arcade_mode(a, e, m, tf, rd.max_l, rd.max_r)
                [] rd.mode = "TANK" ->
                     process_tank_mode(a, e, m, tf, rd.max_l, rd.max_r)
                [] rd.mode = "CAR" ->
                     process_car_mode(a, e, m, tf, rd.max_l, rd.max_r)
                [] rd.mode = "SMOOTH" ->
                     process_smooth_mode(a, e, m, tf, rd.max_l, rd.max_r)
                [] OTHER ->
                     process_arcade_mode(a, e, m, tf, rd.max_l, rd.max_r)
        l1 == apply_min_duty(o.left_duty, rd.min_l)
        r1 == apply_min_duty(o.right_duty, rd.min_r)
    IN  IF m0 = 0
        THEN [left_duty |-> 0, right_duty |-> 0]
        ELSE [left_duty  |-> IF rd.invert_left THEN -l1 ELSE l1,
              right_duty |-> IF rd.invert_right THEN -r1 ELSE r1]

\* A mapper whose dead-zone return leaves *output as the caller passed it.
fuzzy_control_process_stale(angle, magnitude, output) ==
    IF apply_dead_zone(magnitude, current_config.dead_zone) = 0
    THEN output
    ELSE ProcessReads(angle, magnitude, ConfigReads(current_config))

\* fuzzy_control_process(angle, magnitude, &output): output is the content
\* of *output at entry; the result is its content at return.
fuzzy_control_process(angle, magnitude, output) ==
    ProcessReads(angle, magnitude, ConfigReads(current_config))

fuzzy_control_init ==
    [mode |-> "ARCADE", curve |-> "QUADRATIC",
     dead_zone |-> FUZZY_DEAD_ZONE, turn_factor |-> FUZZY_TURN_FACTOR,
     max_duty |-> FUZZY_MAX_DUTY, min_duty |-> FUZZY_MIN_DUTY,
     invert_left |-> FALSE, invert_right |-> FALSE]

\* The six fields each fuzzy_control_preset_* assigns, in assignment order.
PresetFields == <<"mode", "curve", "dead_zone", "turn_factor", "max_duty", "min_duty">>

Presets == {"gentle", "normal", "aggressive", "precision"}

PresetRow(p) ==
    CASE p = "gentle" ->
           [mode |-> "SMOOTH", curve |-> "QUADRATIC", dead_zone |-> 100,
            turn_factor |-> 500, max_duty |-> 180, min_duty |-> 40]
      [] p = "normal" ->
           [mode |-> "ARCADE", curve |-> "QUADRATIC", dead_zone |-> 80,
            turn_factor |-> 700, max_duty |-> 255, min_duty |-> 35]
      [] p = "aggressive" ->
           [mode |-> "TANK", curve |-> "LINEAR", dead_zone |-> 50,
            turn_factor |-> 1000, max_duty |-> 255, min_duty |-> 30]
      [] p = "precision" ->
           [mode |-> "CAR", curve |-> "CUBIC", dead_zone |-> 80,
            turn_factor |-> 600, max_duty |-> 150, min_duty |-> 40]

\* A preset that leaves min_duty as it was.
ApplyPreset_partial(c, p) ==
    [f \in DOMAIN c |->
        IF f \in DOMAIN PresetRow(p) \ {"min_duty"} THEN PresetRow(p)[f]
        ELSE c[f]]

\* A preset that also switches both inversions off.
ApplyPreset_resetinv(c, p) ==
    [f \in DOMAIN c |->
        IF f \in DOMAIN PresetRow(p) THEN PresetRow(p)[f]
        ELSE IF f \in {"invert_left", "invert_right"} THEN FALSE
        ELSE c[f]]

\* A whole preset applied to configuration c (all six assignments).
ApplyPreset(c, p) ==
    [f \in DOMAIN c |->
        IF f \in DOMAIN PresetRow(p) THEN PresetRow(p)[f] ELSE c[f]]

-----------------------------------------------------------------------------
(* Actuation Governor: motor_control.c *)

\* A governor that passes the duty on as it gets it.
ClampDuty_none(duty) == duty

\* The duty after the clamp at the head of motor_set_left / motor_set_right.
ClampDuty(duty) ==
    IF duty > MOTOR_PWM_RESOLUTION THEN MOTOR_PWM_RESOLUTION
    ELSE IF duty < -MOTOR_PWM_RESOLUTION THEN -MOTOR_PWM_RESOLUTION
    ELSE duty

\* The two mcpwm_comparator_set_compare_value calls of one motor_set_*
\* call, in program order.
MotorWrites(duty) ==
    LET d == ClampDuty(duty)
    IN  IF d > 0 THEN <<[cmp |-> "bwd", value |-> 0], [cmp |-> "fwd", value |-> d]>>
        ELSE IF d < 0 THEN <<[cmp |-> "fwd", value |-> 0], [cmp |-> "bwd", value |-> -d]>>
        ELSE <<[cmp |-> "fwd", value |-> 0], [cmp |-> "bwd", value |-> 0]>>

\* One comparator write that takes effect.
ApplyWrite(motor, w) == [motor EXCEPT ![w.cmp] = w.value]

\* motor_set_left / motor_set_right run to the end with both writes
\* taking effect.
MotorSet(motor, duty) ==
    ApplyWrite(ApplyWrite(motor, MotorWrites(duty)[1]), MotorWrites(duty)[2])

-----------------------------------------------------------------------------
(* Quadrature decoder and odometry: encoder.c.  ENCODER_CPR is the         *)
(* rational CprNum / CprDen = 4000 / 3.  rpm is held in hundredths.        *)
(* wheel_circumference_m is held in tenths of a millimetre and distance_m  *)
(* in 1 / CprNum of that unit, so that revolutions * wheel_circumference_m *)
(* is the integer delta_count * CprDen * wheel_circumference_m and the     *)
(* sums are those of exact arithmetic.  Sample times are whole             *)
(* milliseconds, written in microseconds.                                  *)

TELEMETRY_RATE_HZ == 10
ENCODER_PULSES_PER_3_REVS == 1000
ENCODER_PCNT_H_LIM == 32767
ENCODER_PCNT_L_LIM == -32768

CprNum == ENCODER_PULSES_PER_3_REVS * 4
CprDen == 3
RpmScale == 100
UsPerMs == 1000
MsPerMinute == 60000

\* The sampling interval: vTaskDelay(pdMS_TO_TICKS(1000 / TELEMETRY_RATE_HZ)).
TelemetryPeriodMs == 1000 \div TELEMETRY_RATE_HZ
SampleUs == TelemetryPeriodMs * UsPerMs

\* The hardware counter after the wheel turned by d counts: counting up
\* to high_limit or down to low_limit sets the counter back to zero.  No
\* watch point is added on the limits, so nothing accumulates the loss.
PcntCount(c, d) ==
    LET n == c + d
    IN  IF n >= ENCODER_PCNT_H_LIM THEN n - ENCODER_PCNT_H_LIM
        ELSE IF n <= ENCODER_PCNT_L_LIM THEN n - ENCODER_PCNT_L_LIM
        ELSE n

\* rpm = ((float)delta_count / ENCODER_CPR) / (delta_time_us / 60000000).
Rpm(delta_count, delta_time_us) ==
    TruncDiv(delta_count * ((CprDen * MsPerMinute * RpmScale) \div CprNum),
             delta_time_us \div UsPerMs)

\* distance_delta taken from the size of the count delta only.
DistanceDelta_abs(delta_count) ==
    Abs(delta_count) * CprDen * wheel_circumference_m

\* distance_delta = revolutions * wheel_circumference_m.
DistanceDelta(delta_count) == delta_count * CprDen * wheel_circumference_m

\* One wheel's block of encoder_update that leaves the baseline where it
\* was when delta_time_us <= 0.
UpdateWheel_hold(enc, ok, count, t) ==
    IF ~ok \/ t - enc.last_time_us <= 0 THEN enc
    ELSE [last_count |-> count, last_time_us |-> t,
          rpm |-> Rpm(count - enc.last_count, t - enc.last_time_us),
          distance_m |-> enc.distance_m + DistanceDelta(count - enc.last_count)]

\* One wheel's block of encoder_update: ok is the result of the counter
\* read, count the value read, t the time read at the head of the call.
UpdateWheel(enc, ok, count, t) ==
    IF ~ok THEN enc
    ELSE LET delta_count == count - enc.last_count
             delta_time_us == t - enc.last_time_us
         IN  [last_count |-> count,
              last_time_us |-> t,
              rpm |-> IF delta_time_us > 0
                      THEN Rpm(delta_count, delta_time_us) ELSE enc.rpm,
              distance_m |-> IF delta_time_us > 0
                             THEN enc.distance_m + DistanceDelta(delta_count)
                             ELSE enc.distance_m]

\* encoder_update that returns when the left counter read fails.
encoder_update_abort(L, R, okL, countL, okR, countR, t) ==
    [left |-> UpdateWheel(L, okL, countL, t),
     right |-> IF okL THEN UpdateWheel(R, okR, countR, t) ELSE R]

\* encoder_update that reads the time again before the right wheel, one
\* millisecond on.
encoder_update_twoclocks(L, R, okL, countL, okR, countR, t) ==
    [left |-> UpdateWheel(L, okL, countL, t),
     right |-> UpdateWheel(R, okR, countR, t + UsPerMs)]

\* encoder_update: one time read, then the left and the right wheel.
encoder_update(L, R, okL, countL, okR, countR, t) ==
    [left |-> UpdateWheel(L, okL, countL, t),
     right |-> UpdateWheel(R, okR, countR, t)]

\* The assignments of encoder_clear_left / encoder_clear_right after
\* pcnt_unit_clear_count returned ok.
encoder_clear(enc, ok) ==
    IF ok THEN [enc EXCEPT !.last_count = 0, !.distance_m = 0] ELSE enc

-----------------------------------------------------------------------------
(* Initial values shared by the specifications *)

NoAct == [kind |-> "none", seq |-> 0, silence |-> 0, waited |-> 0,
          newest |-> 0, oldest |-> 0, pending |-> 0,
          left |-> 0, right |-> 0]

ZeroCmd == [left_duty |-> 0, right_duty |-> 0]

\* A call record: the arguments, whether *output held (0, 0) at entry, and
\* the duties returned.
NoCall == [valid |-> FALSE, angle |-> 0, magnitude |-> 0,
           prev_zero |-> TRUE, out |-> ZeroCmd]

NoReads == [dead_zone |-> 0, curve |-> "LINEAR", mode |-> "ARCADE",
            turn_factor |-> 0, max_l |-> 0, max_r |-> 0,
            min_l |-> 0, min_r |-> 0,
            invert_left |-> FALSE, invert_right |-> FALSE]

\* app_main has created the queue and both tasks; nothing was pushed yet.
RelayInit ==
    /\ joystick_queue = <<>>
    /\ ctl_pc = "recv"
    /\ ctl_wait = 0
    /\ cb_pc = "idle"
    /\ current_left_pwm = 0
    /\ current_right_pwm = 0
    /\ silence = 0
    /\ pushCount = 0
    /\ dropped = {}
    /\ lastAct = NoAct

\* motor_control_task has run fuzzy_control_init and fuzzy_control_preset_normal.
ConfigInit ==
    /\ current_config = ApplyPreset(fuzzy_control_init, "normal")
    /\ cfg_pc = [preset |-> "none", idx |-> 0, field |-> 0]
    /\ proc_pc = "idle"
    /\ proc_in = [angle |-> 0, magnitude |-> 0]
    /\ proc_rd = NoReads

MapperInit ==
    /\ motor_cmd = ZeroCmd
    /\ map_last = NoCall
    /\ map_ref = NoCall

\* motor_control_init and motor_test_sequence both end in motor_stop.
MotorInit ==
    /\ left_motor = [fwd |-> 0, bwd |-> 0]
    /\ right_motor = [fwd |-> 0, bwd |-> 0]
    /\ mot_pc = "idle"
    /\ mot_call = [side |-> "none", duty |-> 0, ret |-> 0, stop |-> FALSE,
                   writes |-> 0, failed |-> 0]
    /\ mot_prev = [fwd |-> 0, bwd |-> 0]

NoWheelObs == [ok |-> FALSE, count |-> 0, delta_count |-> 0,
               delta_time_us |-> 0, moved |-> 0,
               before |-> [last_count |-> 0, last_time_us |-> 0,
                           rpm |-> 0, distance_m |-> 0]]

NoEncObs == [op |-> "none", side |-> "none", ok |-> FALSE, busy |-> FALSE,
             left |-> NoWheelObs, right |-> NoWheelObs]

\* The right encoder is initialised after the left one.
InitGapUs == 1000

\* encoder_init: both counters cleared and started, each wheel's tracking
\* fields set with the time read in its own init_encoder_pcnt call.
EncoderInit ==
    /\ left_encoder = [last_count |-> 0, last_time_us |-> 0,
                       rpm |-> 0, distance_m |-> 0]
    /\ right_encoder = [last_count |-> 0, last_time_us |-> InitGapUs,
                        rpm |-> 0, distance_m |-> 0]
    /\ pcnt = [left |-> 0, right |-> 0]
    /\ now_us = InitGapUs
    /\ upd_pc = "idle"
    /\ upd_loc = [t |-> 0, ok |-> FALSE, count |-> 0]
    /\ turns = 0
    /\ moved = [left |-> 0, right |-> 0]
    /\ strict_times = [left |-> TRUE, right |-> TRUE]
    /\ enc_obs = NoEncObs

LoopInit ==
    /\ cyc_ret = [left |-> 0, right |-> 0]
    /\ fails = 0

NoTelemetry == [left_pwm |-> 0, right_pwm |-> 0,
                left_count |-> 0, right_count |-> 0,
                left_rpm |-> 0, right_rpm |-> 0,
                left_distance |-> 0, right_distance |-> 0]

\* telemetry_task has been created and is about to run its first cycle.
TelemetryInit ==
    /\ tel_pc = "run"
    /\ tel_wait = 0
    /\ tel_count = 0
    /\ telemetry = NoTelemetry

DefaultWheelDiameterMm == 65

\* pi in ten-thousandths.
PiScaled == 31416
PiScale == 10000

\* (M_PI * diameter_mm) / 1000.0f, in tenths of a millimetre.
Circumference(diameter_mm) == (PiScaled * diameter_mm * 10) \div PiScale

\* encoder_set_wheel_diameter(diameter_mm): the two assignments.
encoder_set_wheel_diameter(diameter_mm) ==
    [diameter |-> diameter_mm, circumference |-> Circumference(diameter_mm)]

\* The configuration, the origin of its curve and the wheel diameter, as
\* the observer notes them before an event.
Tunables(by) == [config |-> current_config, curve_by |-> by,
                 wheel |-> wheel_diameter_mm]

NoEvent == [n |-> 0, op |-> "none", ok |-> FALSE, param |-> "", value |-> "",
            curve_by |-> "preset",
            before |-> [config |-> ApplyPreset(fuzzy_control_init, "normal"),
                        curve_by |-> "preset",
                        wheel |-> DefaultWheelDiameterMm]]

\* encoder.c's static initialiser and the circumference encoder_init
\* computes from it; no event has arrived.
TunableInit ==
    /\ wheel_diameter_mm = DefaultWheelDiameterMm
    /\ wheel_circumference_m = Circumference(DefaultWheelDiameterMm)
    /\ ws_obs = NoEvent

\* No call of apply_dead_zone yet.
NoDzCall == [valid |-> FALSE, magnitude |-> 0, dead_zone |-> 0,
             out |-> Number(0)]

\* No call of normalize_angle in progress.
NoNorm == [pc |-> "idle", input |-> [unit |-> "deg", v |-> 0],
           angle |-> [unit |-> "deg", v |-> 0],
           prev |-> [unit |-> "deg", v |-> 0], iters |-> 0]

HelperInit ==
    /\ dz_call = NoDzCall
    /\ dz_ref = NoDzCall
    /\ norm = NoNorm

\* The two cells hold their static initialisers, 0 and 0.
SnapshotInit ==
    /\ cycle_pairs = {<<0, 0>>}
    /\ pending_pwm = <<0, 0>>

WS_MAX_CLIENTS == 4

\* connected_clients[WS_MAX_CLIENTS] = {0} and client_count = 0.
ClientInit ==
    /\ connected_clients = [i \in 1 .. WS_MAX_CLIENTS |->
                              [fd |-> 0, connected |-> FALSE]]
    /\ client_count = 0
    /\ client_ops = 0

Callers == {"app_main", "wifi_event"}

\* app_main has initialised NVS and is about to call motor_control_init;
\* server, control_callback and joystick_queue hold their NULL initialisers.
StartupInit ==
    /\ app_pc = "motor_init"
    /\ start_pc = [c \in Callers |-> "out"]
    /\ wifi_started = FALSE
    /\ server = 0
    /\ httpd_running = 0
    /\ uri_handlers = 0
    /\ control_callback = FALSE
    /\ queue_created = FALSE
    /\ null_sends = 0
    /\ tasks_created = FALSE

\* app_main has run to its monitoring loop with every step succeeding: one
\* server, the callbacks registered, the queue and the two tasks created.
StartupDone ==
    /\ app_pc = "running"
    /\ start_pc = [c \in Callers |-> "out"]
    /\ wifi_started = TRUE
    /\ server = 1
    /\ httpd_running = 1
    /\ uri_handlers = 1
    /\ control_callback = TRUE
    /\ queue_created = TRUE
    /\ null_sends = 0
    /\ tasks_created = TRUE

PlatformInit == HelperInit /\ SnapshotInit /\ StartupDone /\ ClientInit

-----------------------------------------------------------------------------
(* SpecMapper: fuzzy_control_process called again and again on inputs from *)
(* a grid, under a configuration drawn from a grid and then left alone.    *)

\* Joystick inputs as the relay delivers them: handle_control_message checks
\* no range, so angles outside [0, 360) and magnitudes above 1.0 arrive.
JoyAngles == {-45, 0, 90, 270, 495}
JoyMagnitudes == {50, 1000, 2000}

\* Configurations with 0 <= dead_zone < 1, 0 <= turn_factor <= 1 and
\* min_duty <= max_duty; the four presets are among them, and the normal
\* preset with the smallest turn_factor above 0 the model can express.
DutyLimits == {[max_duty |-> 255, min_duty |-> 35],
               [max_duty |-> 150, min_duty |-> 150]}

ConfigGrid ==
    {[mode |-> mo, curve |-> cu, dead_zone |-> dz, turn_factor |-> tf,
      max_duty |-> dl.max_duty, min_duty |-> dl.min_duty,
      invert_left |-> il, invert_right |-> FALSE] :
        mo \in Modes, cu \in Curves, dz \in {0, 100}, tf \in {500, 1000},
        dl \in DutyLimits, il \in BOOLEAN}
      \cup {ApplyPreset(fuzzy_control_init, p) : p \in Presets}
      \cup {[ApplyPreset(fuzzy_control_init, "normal")
                EXCEPT !.turn_factor = 1]}

InitMapper ==
    /\ RelayInit /\ MotorInit /\ MapperInit
    /\ EncoderInit /\ LoopInit /\ TelemetryInit /\ TunableInit
    /\ PlatformInit
    /\ current_config \in ConfigGrid
    /\ cfg_pc = [preset |-> "none", idx |-> 0, field |-> 0]
    /\ proc_pc = "idle"
    /\ proc_in = [angle |-> 0, magnitude |-> 0]
    /\ proc_rd = NoReads

\* One call fuzzy_control_process(angle, magnitude, &motor_cmd).
MapperCall ==
    /\ \E a \in JoyAngles, m \in JoyMagnitudes :
         /\ motor_cmd' = fuzzy_control_process(a, m, motor_cmd)
         /\ map_last' = [valid |-> TRUE, angle |-> a, magnitude |-> m,
                         prev_zero |-> (motor_cmd = ZeroCmd),
                         out |-> motor_cmd']
    /\ UNCHANGED <<map_ref, relayVars, configVars, motorVars>>
    /\ UNCHANGED <<encoderVars, loopVars, telemetryVars>>
    /\ UNCHANGED <<tunableVars, platformVars>>

\* The observer keeps the last call to compare later calls with it.
MapperKeep ==
    /\ map_last.valid
    /\ map_ref' = map_last
    /\ UNCHANGED <<motor_cmd, map_last, relayVars, configVars, motorVars>>
    /\ UNCHANGED <<encoderVars, loopVars, telemetryVars>>
    /\ UNCHANGED <<tunableVars, platformVars>>

NextMapper == MapperCall \/ MapperKeep

SpecMapper == InitMapper /\ [][NextMapper]_vars

\* C8 (as claimed): every duty the mapper yields is within max_duty, and
\* every non-zero duty is at least min_duty, for every accepted input.
C8_DutyBounds ==
    map_last.valid =>
        /\ Abs(map_last.out.left_duty) <= current_config.max_duty
        /\ Abs(map_last.out.right_duty) <= current_config.max_duty
        /\ (map_last.out.left_duty # 0 =>
                Abs(map_last.out.left_duty) >= current_config.min_duty)
        /\ (map_last.out.right_duty # 0 =>
                Abs(map_last.out.right_duty) >= current_config.min_duty)

\* C9: a magnitude below dead_zone maps to exactly (0, 0), whatever the
\* mode, curve, angle and inversion.
C9_DeadZoneRejects ==
    (map_last.valid /\ map_last.magnitude < current_config.dead_zone) =>
        map_last.out = ZeroCmd

\* A magnitude inside the dead zone mapped to (0, 0) in Car mode with the
\* left side inverted, by a call that found non-zero duties in *output.
C9_Witness ==
    /\ map_last.valid
    /\ map_last.magnitude > 0
    /\ map_last.magnitude < current_config.dead_zone
    /\ current_config.invert_left
    /\ current_config.mode = "CAR"
    /\ ~map_last.prev_zero
    /\ motor_cmd = ZeroCmd

BothDuties(d) == [left_duty |-> d, right_duty |-> d]

\* C27 (as claimed): with inversion off, angle pi/2 and magnitude 1.0 map
\* to left_duty = right_duty = max_duty in every mode, and angle 3 pi/2
\* and magnitude 1.0 map to left_duty = right_duty = -max_duty.
C27_ForwardConvention ==
    (/\ map_last.valid
     /\ ~current_config.invert_left /\ ~current_config.invert_right
     /\ map_last.magnitude = Scale) =>
        /\ (map_last.angle = 90 =>
                map_last.out = BothDuties(current_config.max_duty))
        /\ (map_last.angle = 270 =>
                map_last.out = BothDuties(-current_config.max_duty))

\* The call C28 is about: Arcade mode, inversion off, turn_factor > 0,
\* angle 0 and magnitude 1.0.
InPlaceCall ==
    /\ map_last.valid
    /\ current_config.mode = "ARCADE"
    /\ ~current_config.invert_left /\ ~current_config.invert_right
    /\ current_config.turn_factor > 0
    /\ map_last.angle = 0
    /\ map_last.magnitude = Scale

\* C28 (as claimed): in Arcade mode with inversion off, turn_factor > 0,
\* angle 0 and magnitude 1.0 the output has left_duty > 0, right_duty < 0
\* and left_duty = -right_duty.
C28_InPlaceRotation ==
    InPlaceCall =>
        /\ map_last.out.left_duty > 0
        /\ map_last.out.right_duty < 0
        /\ map_last.out.left_duty = -map_last.out.right_duty

\* C28 (amended): under the same conditions left_duty = -right_duty and
\* left_duty >= 0, also after the minimum-duty floor; left_duty > 0 and
\* right_duty < 0 when turn_factor * max_duty is at least one count, and
\* both duties are 0 when it is less.
C28_InPlaceRotationAboveOneCount ==
    InPlaceCall =>
        /\ map_last.out.left_duty = -map_last.out.right_duty
        /\ map_last.out.left_duty >= 0
        /\ (map_last.out.left_duty > 0 <=>
              current_config.turn_factor * current_config.max_duty >= Scale)
        /\ (map_last.out.left_duty > 0 =>
              map_last.out.left_duty >= current_config.min_duty)

\* An in-place rotation whose duties the minimum-duty floor lifted on both
\* sides: turn_factor 0.5 of max_duty 150 is 75, below min_duty 150.
C28_Witness ==
    /\ InPlaceCall
    /\ current_config.turn_factor * current_config.max_duty
         < current_config.min_duty * Scale
    /\ map_last.out.left_duty = current_config.min_duty
    /\ map_last.out.right_duty = -current_config.min_duty
    /\ motor_cmd = map_last.out

\* The configuration c in Arcade mode with turn_factor 0.7 times its own.
DampedArcade(c) ==
    [c EXCEPT !.mode = "ARCADE",
              !.turn_factor = TruncDiv(c.turn_factor * 700, Scale)]

\* The last call's input mapped under the configuration c.
MappedUnder(c) ==
    ProcessReads(map_last.angle, map_last.magnitude, ConfigReads(c))

ShapedMagnitude ==
    apply_curve(apply_dead_zone(map_last.magnitude, current_config.dead_zone),
                current_config.curve)

\* The call C30 is about: Car mode, inversion off, a magnitude the dead
\* zone lets through.
CarCall ==
    /\ map_last.valid
    /\ current_config.mode = "CAR"
    /\ ~current_config.invert_left /\ ~current_config.invert_right
    /\ apply_dead_zone(map_last.magnitude, current_config.dead_zone) # 0

CarAngle == normalize_angle(map_last.angle)

\* The duty of a wheel whose speed is sin(theta) * factor * m.
CarDuty(factor) ==
    apply_min_duty(
        TruncDiv(Mul(Mul(SinDeg(CarAngle), factor), ShapedMagnitude)
                   * current_config.max_duty, Scale),
        current_config.min_duty)

\* base and base * (1 - reduction), reduction = |cos theta| * turn_factor.
CarFull == CarDuty(Scale)
CarReduced ==
    CarDuty(Scale - Mul(Abs(CosDeg(CarAngle)), current_config.turn_factor))

\* The duties never have opposite signs, and the wheel that cos theta
\* selects for the reduction is not the faster one.
CarConsequence ==
    /\ map_last.out.left_duty * map_last.out.right_duty >= 0
    /\ Abs(CarReduced) <= Abs(CarFull)

\* C30 (as claimed): in Car mode the left wheel receives base * (1 -
\* reduction) and the right wheel base when cos theta > 0, the right wheel
\* receives base * (1 - reduction) and the left wheel base when
\* cos theta < 0; the duties never have opposite signs and the reduced
\* duty is not the larger one.
C30_CarOuterWheelReduced ==
    CarCall =>
        /\ (CosDeg(CarAngle) > 0 =>
              map_last.out = [left_duty |-> CarReduced,
                              right_duty |-> CarFull])
        /\ (CosDeg(CarAngle) < 0 =>
              map_last.out = [left_duty |-> CarFull,
                              right_duty |-> CarReduced])
        /\ CarConsequence

\* C30 (amended): the reduced wheel is the one on the side of the turn,
\* the right wheel when cos theta > 0 and the left wheel when
\* cos theta < 0; with inversion off the duties never have opposite signs
\* and the reduced duty is not the larger one.
C30_CarInnerWheelReduced ==
    CarCall =>
        /\ (CosDeg(CarAngle) > 0 =>
              map_last.out = [left_duty |-> CarFull,
                              right_duty |-> CarReduced])
        /\ (CosDeg(CarAngle) < 0 =>
              map_last.out = [left_duty |-> CarReduced,
                              right_duty |-> CarFull])
        /\ CarConsequence

\* A Car call with the joystick pointing back and to the left (cos theta
\* < 0 after the angle wrapped once): the left wheel got the smaller duty,
\* the right wheel the unreduced one.
C30_Witness ==
    /\ CarCall
    /\ map_last.angle = 495
    /\ CosDeg(CarAngle) < 0
    /\ map_last.out.right_duty = CarFull
    /\ map_last.out.left_duty = CarReduced
    /\ map_last.out.left_duty > 0
    /\ map_last.out.left_duty < map_last.out.right_duty

-----------------------------------------------------------------------------
(* Spec: the Command Relay and the Control Loop (main.c).  The producer is *)
(* websocket_control_callback, the consumer motor_control_task.  A control *)
(* cycle that received a command runs the mapper and the governor; time    *)
(* passes only while the task is blocked in xQueueReceive or vTaskDelay.   *)

MaxPush == 12

TickMs == ControlPeriodMs
SilenceCap == RecvTimeoutMs + 2 * ControlPeriodMs

\* The n-th command the client sends: the stick goes forward, right, back,
\* and round again.  The timestamp field carries the push number n.
ClientCommand(n) ==
    CASE n % 3 = 1 -> [angle |-> 90, magnitude |-> 1000, timestamp |-> n]
      [] n % 3 = 2 -> [angle |-> 0, magnitude |-> 500, timestamp |-> n]
      [] OTHER     -> [angle |-> 270, magnitude |-> 1000, timestamp |-> n]

RECURSIVE SeqMin(_)
SeqMin(q) ==
    IF Len(q) = 1 THEN q[1].timestamp
    ELSE LET r == SeqMin(Tail(q))
         IN  IF q[1].timestamp < r THEN q[1].timestamp ELSE r

\* xQueueSend that appends even when the queue already holds QueueLen items.
XQueueSend_nocap(q, item, ticksToWait) ==
    [queue |-> Append(q, item), res |-> "pdTRUE"]

\* xQueueSend(q, &item, ticksToWait) on a queue created with QueueLen slots.
XQueueSend(q, item, ticksToWait) ==
    IF Len(q) < QueueLen THEN [queue |-> Append(q, item), res |-> "pdTRUE"]
    ELSE IF ticksToWait > 0 THEN [queue |-> q, res |-> "blocked"]
    ELSE [queue |-> q, res |-> "errQUEUE_FULL"]

\* The ticks-to-wait argument of the callback's xQueueSend, had it passed
\* the receive timeout instead of 0.
SendTicksToWait_timeout == RecvTimeoutMs

SendTicksToWait == 0

\* xQueueReceive that takes the newest item and leaves the older ones.
XQueueReceive_newest(q) ==
    [item |-> q[Len(q)], queue |-> SubSeq(q, 1, Len(q) - 1)]

\* xQueueReceive on a non-empty queue: the item at the head.
XQueueReceive(q) == [item |-> Head(q), queue |-> Tail(q)]

\* websocket_control_callback(control): builds the command and posts it.
WebsocketControlCallback ==
    /\ cb_pc = "idle"
    /\ pushCount < MaxPush
    /\ LET cmd == ClientCommand(pushCount + 1)
           r == XQueueSend(joystick_queue, cmd, SendTicksToWait)
       IN  /\ joystick_queue' = r.queue
           /\ cb_pc' = IF r.res = "blocked" THEN "blocked" ELSE "idle"
           /\ dropped' = IF r.res = "pdTRUE" THEN dropped
                         ELSE dropped \cup {pushCount + 1}
    /\ pushCount' = pushCount + 1
    /\ silence' = 0
    /\ UNCHANGED <<ctl_pc, ctl_wait, current_left_pwm, current_right_pwm, lastAct>>
    /\ UNCHANGED <<configVars, mapperVars, motorVars>>
    /\ UNCHANGED <<encoderVars, loopVars, telemetryVars>>
    /\ UNCHANGED <<tunableVars, platformVars>>

\* The cycle's record, for the observer.
Act(kind, seq, l, r) ==
    [kind |-> kind, seq |-> seq, silence |-> silence, waited |-> ctl_wait,
     newest |-> pushCount,
     oldest |-> IF joystick_queue = <<>> THEN 0 ELSE SeqMin(joystick_queue),
     pending |-> Len(joystick_queue), left |-> l, right |-> r]

\* The else-branch without motor_stop and without zeroing the cells.
ControlTimeout_keep ==
    /\ ctl_pc = "recv"
    /\ joystick_queue = <<>>
    /\ ctl_wait >= RecvTimeoutMs
    /\ lastAct' = Act("stop", 0, current_left_pwm, current_right_pwm)
    /\ ctl_pc' = "delay"
    /\ ctl_wait' = 0
    /\ UNCHANGED <<joystick_queue, cb_pc, silence, pushCount, dropped,
                   current_left_pwm, current_right_pwm>>
    /\ UNCHANGED <<configVars, mapperVars, motorVars>>
    /\ UNCHANGED <<encoderVars, loopVars, telemetryVars>>
    /\ UNCHANGED <<tunableVars, platformVars>>

\* A receive branch that stores the cells before the mapper has written
\* motor_cmd: the cells get the duties of the cycle before.
ControlReceive_prior ==
    /\ ctl_pc = "recv"
    /\ joystick_queue # <<>>
    /\ LET r == XQueueReceive(joystick_queue)
           out == fuzzy_control_process(r.item.angle, r.item.magnitude, motor_cmd)
       IN  /\ joystick_queue' = r.queue
           /\ motor_cmd' = out
           /\ left_motor' = MotorSet(left_motor, out.left_duty)
           /\ right_motor' = MotorSet(right_motor, out.right_duty)
           /\ current_left_pwm' = motor_cmd.left_duty
           /\ current_right_pwm' = motor_cmd.right_duty
           /\ lastAct' = Act("cmd", r.item.timestamp, out.left_duty, out.right_duty)
    /\ ctl_pc' = "delay"
    /\ ctl_wait' = 0
    /\ UNCHANGED <<cb_pc, silence, pushCount, dropped>>
    /\ UNCHANGED <<configVars, map_last, map_ref, mot_pc, mot_call, mot_prev>>
    /\ UNCHANGED <<encoderVars, loopVars, telemetryVars>>
    /\ UNCHANGED <<tunableVars, platformVars>>

\* motor_control_task, xQueueReceive returned pdTRUE: map, actuate, record.
ControlReceive ==
    /\ ctl_pc = "recv"
    /\ joystick_queue # <<>>
    /\ LET r == XQueueReceive(joystick_queue)
           out == fuzzy_control_process(r.item.angle, r.item.magnitude, motor_cmd)
       IN  /\ joystick_queue' = r.queue
           /\ motor_cmd' = out
           /\ left_motor' = MotorSet(left_motor, out.left_duty)
           /\ right_motor' = MotorSet(right_motor, out.right_duty)
           /\ current_left_pwm' = out.left_duty
           /\ current_right_pwm' = out.right_duty
           /\ lastAct' = Act("cmd", r.item.timestamp, out.left_duty, out.right_duty)
    /\ ctl_pc' = "delay"
    /\ ctl_wait' = 0
    /\ UNCHANGED <<cb_pc, silence, pushCount, dropped>>
    /\ UNCHANGED <<configVars, map_last, map_ref, mot_pc, mot_call, mot_prev>>
    /\ UNCHANGED <<encoderVars, loopVars, telemetryVars>>
    /\ UNCHANGED <<tunableVars, platformVars>>

\* motor_control_task, xQueueReceive timed out: motor_stop, record zero.
ControlTimeout ==
    /\ ctl_pc = "recv"
    /\ joystick_queue = <<>>
    /\ ctl_wait >= RecvTimeoutMs
    /\ left_motor' = MotorSet(left_motor, 0)
    /\ right_motor' = MotorSet(right_motor, 0)
    /\ current_left_pwm' = 0
    /\ current_right_pwm' = 0
    /\ lastAct' = Act("stop", 0, 0, 0)
    /\ ctl_pc' = "delay"
    /\ ctl_wait' = 0
    /\ UNCHANGED <<joystick_queue, cb_pc, silence, pushCount, dropped>>
    /\ UNCHANGED <<configVars, mapperVars, mot_pc, mot_call, mot_prev>>
    /\ UNCHANGED <<encoderVars, loopVars, telemetryVars>>
    /\ UNCHANGED <<tunableVars, platformVars>>

\* vTaskDelay(pdMS_TO_TICKS(1000 / MOTOR_CONTROL_RATE_HZ)) has elapsed.
ControlDelayDone ==
    /\ ctl_pc = "delay"
    /\ ctl_wait >= ControlPeriodMs
    /\ ctl_pc' = "recv"
    /\ ctl_wait' = 0
    /\ UNCHANGED <<joystick_queue, cb_pc, silence, pushCount, dropped, lastAct,
                   current_left_pwm, current_right_pwm>>
    /\ UNCHANGED <<configVars, mapperVars, motorVars>>
    /\ UNCHANGED <<encoderVars, loopVars, telemetryVars>>
    /\ UNCHANGED <<tunableVars, platformVars>>

\* Time passes while motor_control_task is blocked: in xQueueReceive on an
\* empty queue before the timeout, or in vTaskDelay before the period ends.
Tick ==
    /\ \/ ctl_pc = "recv" /\ joystick_queue = <<>> /\ ctl_wait < RecvTimeoutMs
       \/ ctl_pc = "delay" /\ ctl_wait < ControlPeriodMs
    /\ ctl_wait' = ctl_wait + TickMs
    /\ silence' = IF silence + TickMs > SilenceCap THEN SilenceCap
                  ELSE silence + TickMs
    /\ UNCHANGED <<joystick_queue, ctl_pc, cb_pc, pushCount, dropped, lastAct,
                   current_left_pwm, current_right_pwm>>
    /\ UNCHANGED <<configVars, mapperVars, motorVars>>
    /\ UNCHANGED <<encoderVars, loopVars, telemetryVars>>
    /\ UNCHANGED <<tunableVars, platformVars>>

Init == RelayInit /\ ConfigInit /\ MapperInit /\ MotorInit
        /\ EncoderInit /\ LoopInit /\ TelemetryInit /\ TunableInit
        /\ PlatformInit

Next ==
    \/ WebsocketControlCallback
    \/ ControlReceive
    \/ ControlTimeout
    \/ ControlDelayDone
    \/ Tick

Spec == Init /\ [][Next]_vars

AllStopped ==
    /\ left_motor = [fwd |-> 0, bwd |-> 0]
    /\ right_motor = [fwd |-> 0, bwd |-> 0]
    /\ current_left_pwm = 0
    /\ current_right_pwm = 0

C4_ProducerNeverBlocks ==
    /\ cb_pc = "idle"
    /\ (pushCount < MaxPush => ENABLED WebsocketControlCallback)

\* The callback has returned from a push onto the full relay, while the
\* control task sat in its delay.
C4_Witness ==
    /\ cb_pc = "idle"
    /\ dropped # {}
    /\ Len(joystick_queue) = QueueLen
    /\ ctl_pc = "delay"

MappedDuties(seq) ==
    fuzzy_control_process(ClientCommand(seq).angle,
                          ClientCommand(seq).magnitude, ZeroCmd)

\* C21: from the end of a cycle on, the cells current_left_pwm and
\* current_right_pwm hold the duties the mapper produced in that cycle if
\* it received a command, and (0, 0) if its receive timed out.
C21_RecordedDuties ==
    /\ lastAct.kind = "cmd" =>
         /\ current_left_pwm = MappedDuties(lastAct.seq).left_duty
         /\ current_right_pwm = MappedDuties(lastAct.seq).right_duty
         /\ motor_cmd = MappedDuties(lastAct.seq)
    /\ lastAct.kind = "stop" =>
         (current_left_pwm = 0 /\ current_right_pwm = 0)

\* A cycle that received a turn-on-the-spot command, two cycles or more
\* after the first one, has recorded unequal non-zero duties.
C21_Witness ==
    /\ ctl_pc = "delay"
    /\ lastAct.kind = "cmd"
    /\ lastAct.seq >= 2
    /\ current_left_pwm # 0
    /\ current_left_pwm # current_right_pwm
    /\ current_left_pwm = MappedDuties(lastAct.seq).left_duty

-----------------------------------------------------------------------------
(* SpecPreset: a preset applied from the network callback while            *)
(* fuzzy_control_process runs in motor_control_task.  Neither side takes   *)
(* a lock: every assignment of a preset and every read of a field of       *)
(* current_config is a step of its own.                                    *)

MaxPresetCalls == 2

PresetInputs == {[angle |-> 90, magnitude |-> 1000],
                 [angle |-> 0, magnitude |-> 500]}

\* The step after reading field f, given the reads rd made so far.
NextRead(f, rd, magnitude) ==
    CASE f = "dead_zone" ->
           IF apply_dead_zone(magnitude, rd.dead_zone) = 0 THEN "return"
           ELSE "curve"
      [] f = "curve" -> "mode"
      [] f = "mode" -> IF rd.mode = "TANK" THEN "max_l" ELSE "turn_factor"
      [] f = "turn_factor" -> "max_l"
      [] f = "max_l" -> "max_r"
      [] f = "max_r" -> "min_l"
      [] f = "min_l" -> "min_r"
      [] f = "min_r" -> "invert_left"
      [] f = "invert_left" -> "invert_right"
      [] f = "invert_right" -> "return"

\* The field of current_config that read step f loads.
FieldOf(f) ==
    CASE f = "max_l" -> "max_duty"
      [] f = "max_r" -> "max_duty"
      [] f = "min_l" -> "min_duty"
      [] f = "min_r" -> "min_duty"
      [] OTHER -> f

ReadSteps == {"dead_zone", "curve", "mode", "turn_factor", "max_l", "max_r",
              "min_l", "min_r", "invert_left", "invert_right"}

\* motor_control_task enters fuzzy_control_process(angle, magnitude, &motor_cmd).
ProcStart ==
    /\ proc_pc = "idle"
    /\ \E in \in PresetInputs : proc_in' = in
    /\ proc_pc' = "dead_zone"
    /\ proc_rd' = NoReads
    /\ UNCHANGED <<current_config, cfg_pc, relayVars, mapperVars, motorVars>>
    /\ UNCHANGED <<encoderVars, loopVars, telemetryVars>>
    /\ UNCHANGED <<tunableVars, platformVars>>

\* One read of a field of current_config.
ProcRead ==
    /\ proc_pc \in ReadSteps
    /\ LET rd == [proc_rd EXCEPT ![proc_pc] = current_config[FieldOf(proc_pc)]]
       IN  /\ proc_rd' = rd
           /\ proc_pc' = NextRead(proc_pc, rd, proc_in.magnitude)
    /\ UNCHANGED <<current_config, cfg_pc, proc_in, relayVars, mapperVars, motorVars>>
    /\ UNCHANGED <<encoderVars, loopVars, telemetryVars>>
    /\ UNCHANGED <<tunableVars, platformVars>>

\* fuzzy_control_process returns: *output holds the duties computed from
\* the values read.
ProcReturn ==
    /\ proc_pc = "return"
    /\ motor_cmd' = ProcessReads(proc_in.angle, proc_in.magnitude, proc_rd)
    /\ map_last' = [valid |-> TRUE, angle |-> proc_in.angle,
                    magnitude |-> proc_in.magnitude,
                    prev_zero |-> (motor_cmd = ZeroCmd), out |-> motor_cmd']
    /\ proc_pc' = "idle"
    /\ UNCHANGED <<current_config, cfg_pc, proc_in, proc_rd, map_ref,
                   relayVars, motorVars>>
    /\ UNCHANGED <<encoderVars, loopVars, telemetryVars>>
    /\ UNCHANGED <<tunableVars, platformVars>>

\* websocket_config_callback enters fuzzy_control_preset_<p>.
PresetStart ==
    /\ cfg_pc.preset = "none"
    /\ cfg_pc.idx < MaxPresetCalls
    /\ \E p \in Presets : cfg_pc' = [preset |-> p, idx |-> cfg_pc.idx, field |-> 1]
    /\ UNCHANGED <<current_config, proc_pc, proc_in, proc_rd,
                   relayVars, mapperVars, motorVars>>
    /\ UNCHANGED <<encoderVars, loopVars, telemetryVars>>
    /\ UNCHANGED <<tunableVars, platformVars>>

\* One assignment current_config.<field> = <value>; the sixth is the last.
PresetWrite ==
    /\ cfg_pc.preset # "none"
    /\ LET f == PresetFields[cfg_pc.field]
       IN  current_config' = [current_config EXCEPT ![f] = PresetRow(cfg_pc.preset)[f]]
    /\ cfg_pc' = IF cfg_pc.field = Len(PresetFields)
                 THEN [preset |-> "none", idx |-> cfg_pc.idx + 1, field |-> 0]
                 ELSE [cfg_pc EXCEPT !.field = @ + 1]
    /\ UNCHANGED <<proc_pc, proc_in, proc_rd, relayVars, mapperVars, motorVars>>
    /\ UNCHANGED <<encoderVars, loopVars, telemetryVars>>
    /\ UNCHANGED <<tunableVars, platformVars>>

InitPreset == RelayInit /\ ConfigInit /\ MapperInit /\ MotorInit
              /\ EncoderInit /\ LoopInit /\ TelemetryInit /\ TunableInit
              /\ PlatformInit

NextPreset == ProcStart \/ ProcRead \/ ProcReturn \/ PresetStart \/ PresetWrite

SpecPreset == InitPreset /\ [][NextPreset]_vars

\* The values a returned call read are all those of preset p (a call that
\* returned at the dead zone read dead_zone alone; Tank reads no turn_factor).
ReadsFrom(rd, magnitude, p) ==
    LET row == PresetRow(p)
    IN  /\ rd.dead_zone = row.dead_zone
        /\ apply_dead_zone(magnitude, rd.dead_zone) # 0 =>
             /\ rd.curve = row.curve
             /\ rd.mode = row.mode
             /\ rd.mode # "TANK" => rd.turn_factor = row.turn_factor
             /\ rd.max_l = row.max_duty /\ rd.max_r = row.max_duty
             /\ rd.min_l = row.min_duty /\ rd.min_r = row.min_duty

\* C6 (as claimed): every mapping call that has returned computed its
\* duties from the fields of one single preset.
C6_PresetAtomic ==
    (proc_pc = "idle" /\ map_last.valid) =>
        \E p \in Presets : ReadsFrom(proc_rd, map_last.magnitude, p)

-----------------------------------------------------------------------------
(* SpecMotor: motor_set_left, motor_set_right and motor_stop, one          *)
(* comparator write at a time.  mcpwm_comparator_set_compare_value returns *)
(* an esp_err_t: a write either takes effect or fails and leaves the       *)
(* comparator as it was.                                                   *)

MotorDuties == {-300, -128, 0, 128, 300}

MotorOf(side) == IF side = "left" THEN left_motor ELSE right_motor

\* Entry of motor_set_left(d) or motor_set_right(d), called on its own.
MotorSetCall ==
    /\ mot_pc = "idle"
    /\ \E side \in {"left", "right"}, d \in MotorDuties :
         /\ mot_call' = [side |-> side, duty |-> d, ret |-> 0, stop |-> FALSE,
                          writes |-> 0, failed |-> 0]
         /\ mot_prev' = MotorOf(IF side = "left" THEN "right" ELSE "left")
    /\ mot_pc' = "w1"
    /\ UNCHANGED <<left_motor, right_motor, relayVars, configVars, mapperVars>>
    /\ UNCHANGED <<encoderVars, loopVars, telemetryVars>>
    /\ UNCHANGED <<tunableVars, platformVars>>

\* Entry of motor_stop: motor_set_left(0), then motor_set_right(0).
MotorStopCall ==
    /\ mot_pc = "idle"
    /\ mot_call' = [side |-> "left", duty |-> 0, ret |-> 0, stop |-> TRUE,
                     writes |-> 0, failed |-> 0]
    /\ mot_prev' = right_motor
    /\ mot_pc' = "w1"
    /\ UNCHANGED <<left_motor, right_motor, relayVars, configVars, mapperVars>>
    /\ UNCHANGED <<encoderVars, loopVars, telemetryVars>>
    /\ UNCHANGED <<tunableVars, platformVars>>

\* The call record after one more write: the result so far, and for the
\* observer the number of writes made and of writes that failed.
Written(ret, ok) ==
    [mot_call EXCEPT !.ret = ret, !.writes = @ + 1,
                     !.failed = IF ok THEN @ ELSE @ + 1]

\* A motor_stop that returns as soon as motor_set_left(0) has failed.
AfterWrite_abort(ret, ok) ==
    IF mot_pc = "w1"
    THEN /\ mot_pc' = "w2"
         /\ mot_call' = Written(ret, ok)
    ELSE IF mot_call.stop /\ mot_call.side = "left" /\ ret = 0
    THEN /\ mot_pc' = "w1"
         /\ mot_call' = [Written(ret, ok) EXCEPT !.side = "right"]
    ELSE /\ mot_pc' = "idle"
         /\ mot_call' = Written(ret, ok)

\* Control after the write at mot_pc: the second write, the right motor's
\* half of motor_stop, or the return.  ret is the or of the results so
\* far, ok tells whether this write succeeded.
AfterWrite(ret, ok) ==
    IF mot_pc = "w1"
    THEN /\ mot_pc' = "w2"
         /\ mot_call' = Written(ret, ok)
    ELSE IF mot_call.stop /\ mot_call.side = "left"
    THEN /\ mot_pc' = "w1"
         /\ mot_call' = [Written(ret, ok) EXCEPT !.side = "right"]
    ELSE /\ mot_pc' = "idle"
         /\ mot_call' = Written(ret, ok)

\* The write at mot_pc returns ESP_OK and sets the comparator.
MotorWriteOk ==
    /\ mot_pc \in {"w1", "w2"}
    /\ LET w == MotorWrites(mot_call.duty)[IF mot_pc = "w1" THEN 1 ELSE 2]
       IN  IF mot_call.side = "left"
           THEN left_motor' = ApplyWrite(left_motor, w) /\ UNCHANGED right_motor
           ELSE right_motor' = ApplyWrite(right_motor, w) /\ UNCHANGED left_motor
    /\ AfterWrite(mot_call.ret, TRUE)
    /\ UNCHANGED <<mot_prev, relayVars, configVars, mapperVars>>
    /\ UNCHANGED <<encoderVars, loopVars, telemetryVars>>
    /\ UNCHANGED <<tunableVars, platformVars>>

\* The write at mot_pc returns an error and leaves the comparator; the
\* function goes on to its next write (ret |= ...).
MotorWriteFail ==
    /\ mot_pc \in {"w1", "w2"}
    /\ AfterWrite(1, FALSE)
    /\ UNCHANGED <<left_motor, right_motor, mot_prev, relayVars, configVars, mapperVars>>
    /\ UNCHANGED <<encoderVars, loopVars, telemetryVars>>
    /\ UNCHANGED <<tunableVars, platformVars>>

InitMotor == RelayInit /\ ConfigInit /\ MapperInit /\ MotorInit
             /\ EncoderInit /\ LoopInit /\ TelemetryInit /\ TunableInit
             /\ PlatformInit

NextMotor == MotorSetCall \/ MotorStopCall \/ MotorWriteOk \/ MotorWriteFail

SpecMotor == InitMotor /\ [][NextMotor]_vars

ZeroPair == [fwd |-> 0, bwd |-> 0]

\* The comparator pair the claim asks for after a call with duty d.
ClaimedPair(d) ==
    LET c == IF d > 255 THEN 255 ELSE IF d < -255 THEN -255 ELSE d
    IN  IF c > 0 THEN [fwd |-> c, bwd |-> 0]
        ELSE IF c < 0 THEN [fwd |-> 0, bwd |-> -c]
        ELSE ZeroPair

OtherSide(side) == IF side = "left" THEN "right" ELSE "left"

\* C25: when motor_set_left(d) or motor_set_right(d) has returned with
\* both writes done, the motor's comparators are (c, 0), (0, -c) or (0, 0)
\* after the sign of c, the duty clamped into [-255, 255], and the other
\* motor's comparators are as they were at entry; all the time every
\* comparator value lies within [0, 255].
C25_GovernorPostcondition ==
    /\ (mot_pc = "idle" /\ mot_call.side # "none" /\ ~mot_call.stop
          /\ mot_call.failed = 0) =>
         /\ mot_call.ret = 0
         /\ MotorOf(mot_call.side) = ClaimedPair(mot_call.duty)
         /\ MotorOf(OtherSide(mot_call.side)) = mot_prev
    /\ \A m \in {left_motor, right_motor} :
         m.fwd \in 0..255 /\ m.bwd \in 0..255

\* motor_set_left(-300) has returned with both writes done while the
\* right motor runs forward: the left motor is at full reverse.
C25_Witness ==
    /\ mot_pc = "idle" /\ ~mot_call.stop
    /\ mot_call.side = "left" /\ mot_call.duty = -300
    /\ mot_call.failed = 0 /\ mot_call.writes = 2
    /\ left_motor = [fwd |-> 0, bwd |-> 255]
    /\ right_motor.fwd = 128
    /\ mot_prev = right_motor

\* C26: motor_stop can be called whenever no call is running, whatever the
\* comparators hold; when it has returned it has made all four writes,
\* the right motor's too when a left one failed; it returns ESP_OK exactly
\* when no write failed, and then all four comparators are zero.
C26_ForcedStop ==
    /\ mot_pc = "idle" => ENABLED MotorStopCall
    /\ (mot_pc = "idle" /\ mot_call.stop) =>
         /\ mot_call.writes = 4
         /\ mot_call.side = "right"
         /\ (mot_call.ret = 0) <=> (mot_call.failed = 0)
         /\ mot_call.failed = 0 =>
              (left_motor = ZeroPair /\ right_motor = ZeroPair)

\* motor_stop has returned an error: a write for the running left motor
\* failed and left it running, and the right motor, running at entry, was
\* stopped all the same.
C26_Witness ==
    /\ mot_pc = "idle" /\ mot_call.stop
    /\ mot_call.ret # 0 /\ mot_call.failed = 1
    /\ mot_call.writes = 4
    /\ left_motor # ZeroPair
    /\ mot_prev # ZeroPair
    /\ right_motor = ZeroPair

\* C7 (as claimed): for each motor the forward and the backward comparator
\* are never both non-zero, between the writes and when a write fails too.
C7_HBridgeExclusive ==
    /\ ~(left_motor.fwd # 0 /\ left_motor.bwd # 0)
    /\ ~(right_motor.fwd # 0 /\ right_motor.bwd # 0)

-----------------------------------------------------------------------------
(* SpecEncoder: encoder_update and encoder_clear_left / _right called one  *)
(* after the other while the wheels turn.  A turn of the wheels takes one  *)
(* sampling interval, or is a single count edge that arrives before the    *)
(* timer reading changes; two calls without a turn in between read the     *)
(* same time.  A counter read or a counter clear may return an error.      *)

MaxTurns == 2

\* Displacements of the two wheels in counts and the time they take:
\* forward, reverse and standing, small and just under 2/3 of the way to a
\* counter limit over one sampling interval, and one count edge within
\* one timer reading.
WheelMoves == {[left |-> 20000, right |-> 10, us |-> SampleUs],
               [left |-> -10, right |-> -20000, us |-> SampleUs],
               [left |-> 10, right |-> 0, us |-> SampleUs],
               [left |-> 1, right |-> -1, us |-> 0]}

EncoderOf(side) == IF side = "left" THEN left_encoder ELSE right_encoder

\* What the observer notes of one wheel in one encoder_update call.
WheelObs(enc, ok, count, t, m) ==
    [ok |-> ok, count |-> count, delta_count |-> count - enc.last_count,
     delta_time_us |-> t - enc.last_time_us, moved |-> m, before |-> enc]

\* The wheels turn between two calls of encoder_update.
WheelTurn ==
    /\ turns < MaxTurns
    /\ upd_pc = "idle"
    /\ \E m \in WheelMoves :
         /\ pcnt' = [left |-> PcntCount(pcnt.left, m.left),
                     right |-> PcntCount(pcnt.right, m.right)]
         /\ moved' = [left |-> moved.left + m.left,
                      right |-> moved.right + m.right]
         /\ now_us' = now_us + m.us
    /\ turns' = turns + 1
    /\ enc_obs' = [NoEncObs EXCEPT !.op = "turn"]
    /\ UNCHANGED <<left_encoder, right_encoder, upd_pc, upd_loc, strict_times>>
    /\ UNCHANGED <<relayVars, configVars, mapperVars, motorVars, loopVars,
                   telemetryVars>>
    /\ UNCHANGED <<tunableVars, platformVars>>

\* One whole call of encoder_update.
EncoderUpdate ==
    /\ upd_pc = "idle"
    /\ \E okL \in BOOLEAN, okR \in BOOLEAN :
         LET r == encoder_update(left_encoder, right_encoder,
                                 okL, pcnt.left, okR, pcnt.right, now_us)
         IN  /\ left_encoder' = r.left
             /\ right_encoder' = r.right
             /\ moved' = [left |-> IF okL THEN 0 ELSE moved.left,
                          right |-> IF okR THEN 0 ELSE moved.right]
             /\ strict_times' =
                  [left |-> strict_times.left /\
                            (okL => now_us > left_encoder.last_time_us),
                   right |-> strict_times.right /\
                             (okR => now_us > right_encoder.last_time_us)]
             /\ enc_obs' =
                  [op |-> "update", side |-> "both", ok |-> TRUE,
                   busy |-> FALSE,
                   left |-> WheelObs(left_encoder, okL, pcnt.left, now_us,
                                     moved.left),
                   right |-> WheelObs(right_encoder, okR, pcnt.right, now_us,
                                      moved.right)]
    /\ UNCHANGED <<pcnt, now_us, upd_pc, upd_loc, turns>>
    /\ UNCHANGED <<relayVars, configVars, mapperVars, motorVars, loopVars,
                   telemetryVars>>
    /\ UNCHANGED <<tunableVars, platformVars>>

\* One call of encoder_clear_left or encoder_clear_right, from whichever
\* context calls it: pcnt_unit_clear_count, then the two assignments.
EncoderClear ==
    /\ \E side \in {"left", "right"}, ok \in BOOLEAN :
         /\ pcnt' = IF ok THEN [pcnt EXCEPT ![side] = 0] ELSE pcnt
         /\ IF side = "left"
            THEN /\ left_encoder' = encoder_clear(left_encoder, ok)
                 /\ UNCHANGED right_encoder
            ELSE /\ right_encoder' = encoder_clear(right_encoder, ok)
                 /\ UNCHANGED left_encoder
         /\ moved' = IF ok THEN [moved EXCEPT ![side] = 0] ELSE moved
         /\ strict_times' = IF ok THEN [strict_times EXCEPT ![side] = TRUE]
                            ELSE strict_times
         /\ enc_obs' = [NoEncObs EXCEPT !.op = "clear", !.side = side,
                          !.ok = ok, !.busy = (upd_pc # "idle"),
                          ![side] = [NoWheelObs EXCEPT
                                       !.before = EncoderOf(side)]]
    /\ UNCHANGED <<now_us, upd_pc, upd_loc, turns>>
    /\ UNCHANGED <<relayVars, configVars, mapperVars, motorVars, loopVars,
                   telemetryVars>>
    /\ UNCHANGED <<tunableVars, platformVars>>

InitEncoder == RelayInit /\ ConfigInit /\ MapperInit /\ MotorInit
               /\ EncoderInit /\ LoopInit /\ TelemetryInit /\ TunableInit
               /\ PlatformInit

NextEncoder == WheelTurn \/ EncoderUpdate \/ EncoderClear

SpecEncoder == InitEncoder /\ [][NextEncoder]_vars

\* C11 (as claimed): an encoder_update call never lowers a wheel's
\* distance_m, whichever way the wheel turned; only a clear does.
C11_DistanceMonotone ==
    enc_obs.op = "update" =>
        /\ left_encoder.distance_m >= enc_obs.left.before.distance_m
        /\ right_encoder.distance_m >= enc_obs.right.before.distance_m

\* C12 (as claimed): right after a successful clear of a wheel, that
\* wheel's last_count, distance_m and rpm are all 0.
C12_ClearZeroesAll ==
    (enc_obs.op = "clear" /\ enc_obs.ok) =>
        /\ EncoderOf(enc_obs.side).last_count = 0
        /\ EncoderOf(enc_obs.side).distance_m = 0
        /\ EncoderOf(enc_obs.side).rpm = 0

HalfRange == (ENCODER_PCNT_H_LIM - ENCODER_PCNT_L_LIM + 1) \div 2

\* One wheel's part of C13.
WrapTolerant(w) ==
    (w.ok /\ w.delta_time_us > 0 /\ Abs(w.moved) < HalfRange) =>
        w.delta_count = w.moved

\* C13 (as claimed): the delta_count an update uses for rpm and distance
\* is the wheel's true displacement since its last sample, whenever that
\* displacement is under half the counter range, across a counter wrap too.
C13_WrapTolerant ==
    enc_obs.op = "update" =>
        (WrapTolerant(enc_obs.left) /\ WrapTolerant(enc_obs.right))

\* C14: as long as every sample since a wheel's last clear was taken at a
\* strictly later time than the one before, the wheel's distance_m is
\* (last_count / ENCODER_CPR) * wheel_circumference_m, however the counts
\* were split over the updates.
C14_OdometryAdditive ==
    /\ strict_times.left =>
         left_encoder.distance_m = DistanceDelta(left_encoder.last_count)
    /\ strict_times.right =>
         right_encoder.distance_m = DistanceDelta(right_encoder.last_count)

\* Two updates over two intervals have summed a forward and a reverse
\* count delta of the left wheel.
C14_Witness ==
    /\ enc_obs.op = "update"
    /\ strict_times.left
    /\ enc_obs.left.ok /\ enc_obs.left.delta_count < 0
    /\ enc_obs.left.before.distance_m > 0
    /\ left_encoder.distance_m > 0
    /\ left_encoder.distance_m = DistanceDelta(left_encoder.last_count)

\* One wheel's part of C15.
SkipsButAdvances(w, enc, t) ==
    (w.ok /\ w.delta_time_us <= 0) =>
        /\ enc.rpm = w.before.rpm
        /\ enc.distance_m = w.before.distance_m
        /\ enc.last_count = w.count
        /\ enc.last_time_us = t

\* C15: an update that read a wheel's counter and found delta_time_us <= 0
\* leaves that wheel's rpm and distance_m and still advances its
\* last_count and last_time_us to the count and time read.
C15_NonPositiveElapsed ==
    enc_obs.op = "update" =>
        /\ SkipsButAdvances(enc_obs.left, left_encoder, now_us)
        /\ SkipsButAdvances(enc_obs.right, right_encoder, now_us)

\* A second update reads the same time as the one before it and a count
\* one edge further: the non-zero rpm and the distance are kept, the
\* baseline moves to the new count.
C15_Witness ==
    /\ enc_obs.op = "update"
    /\ enc_obs.left.ok
    /\ enc_obs.left.delta_time_us <= 0
    /\ enc_obs.left.delta_count # 0
    /\ enc_obs.left.before.rpm # 0
    /\ enc_obs.left.before.last_time_us = now_us
    /\ left_encoder.rpm = enc_obs.left.before.rpm
    /\ left_encoder.distance_m = enc_obs.left.before.distance_m
    /\ left_encoder.last_count # enc_obs.left.before.last_count

\* One wheel's part of C16: w is the wheel whose read may have failed, o
\* the other wheel.
ReadFailureSkips(w, enc, o, other, t) ==
    /\ ~w.ok => enc = w.before
    /\ (~w.ok /\ o.ok) =>
         (other.last_count = o.count /\ other.last_time_us = t)
    /\ w.ok => (enc.last_count = w.count /\ enc.last_time_us = t)

\* C16: a wheel whose counter read failed keeps rpm, distance_m,
\* last_count and last_time_us; the other wheel is sampled in the same
\* call; a wheel whose read succeeds is sampled, after a failure too.
C16_ReadFailure ==
    enc_obs.op = "update" =>
        /\ ReadFailureSkips(enc_obs.left, left_encoder,
                            enc_obs.right, right_encoder, now_us)
        /\ ReadFailureSkips(enc_obs.right, right_encoder,
                            enc_obs.left, left_encoder, now_us)

\* The left read failed in a call that sampled the moving right wheel.
C16_Witness ==
    /\ enc_obs.op = "update"
    /\ ~enc_obs.left.ok /\ enc_obs.right.ok
    /\ moved.left # 0
    /\ left_encoder = enc_obs.left.before
    /\ left_encoder.last_time_us < now_us
    /\ enc_obs.right.delta_count # 0
    /\ right_encoder.rpm # 0

\* C17 (as claimed): after every encoder_update call both wheels have the
\* same last sample time.
C17_AlignedTimes ==
    enc_obs.op = "update" =>
        left_encoder.last_time_us = right_encoder.last_time_us

\* C17 (amended): after an encoder_update call in which both counter
\* reads succeeded both wheels have the same last sample time.
C17_AlignedWhenBothRead ==
    (enc_obs.op = "update" /\ enc_obs.left.ok /\ enc_obs.right.ok) =>
        left_encoder.last_time_us = right_encoder.last_time_us

\* Both reads succeeded in a call that found the wheels' sample times
\* apart, the left one having missed a sample.
C17_Witness ==
    /\ enc_obs.op = "update"
    /\ enc_obs.left.ok /\ enc_obs.right.ok
    /\ enc_obs.left.before.last_time_us < enc_obs.right.before.last_time_us
    /\ enc_obs.right.before.last_time_us > InitGapUs
    /\ left_encoder.last_time_us = now_us
    /\ right_encoder.last_time_us = now_us

-----------------------------------------------------------------------------
(* SpecEncoderRace: encoder_update run by telemetry_task one statement     *)
(* group at a time (time read, counter read, one wheel's block), while     *)
(* another task calls encoder_clear_left / _right.  encoder.c takes no     *)
(* lock and hands nothing over to the telemetry task.                      *)

StepObs == [NoEncObs EXCEPT !.op = "step"]

\* int64_t current_time_us = esp_timer_get_time().
UpdateBegin ==
    /\ upd_pc = "idle"
    /\ upd_pc' = "readL"
    /\ upd_loc' = [t |-> now_us, ok |-> FALSE, count |-> 0]
    /\ enc_obs' = StepObs
    /\ UNCHANGED <<left_encoder, right_encoder, pcnt, now_us, turns, moved,
                   strict_times>>
    /\ UNCHANGED <<relayVars, configVars, mapperVars, motorVars, loopVars,
                   telemetryVars>>
    /\ UNCHANGED <<tunableVars, platformVars>>

\* ret = encoder_get_count_left(&current_count_left), and the right one.
UpdateRead ==
    /\ upd_pc \in {"readL", "readR"}
    /\ \E ok \in BOOLEAN :
         upd_loc' = [upd_loc EXCEPT
                       !.ok = ok,
                       !.count = IF upd_pc = "readL" THEN pcnt.left
                                 ELSE pcnt.right]
    /\ upd_pc' = IF upd_pc = "readL" THEN "storeL" ELSE "storeR"
    /\ enc_obs' = StepObs
    /\ UNCHANGED <<left_encoder, right_encoder, pcnt, now_us, turns, moved,
                   strict_times>>
    /\ UNCHANGED <<relayVars, configVars, mapperVars, motorVars, loopVars,
                   telemetryVars>>
    /\ UNCHANGED <<tunableVars, platformVars>>

\* The body of if (ret == ESP_OK) for the left wheel.
UpdateStoreLeft ==
    /\ upd_pc = "storeL"
    /\ left_encoder' = UpdateWheel(left_encoder, upd_loc.ok, upd_loc.count,
                                   upd_loc.t)
    /\ moved' = IF upd_loc.ok THEN [moved EXCEPT !.left = 0] ELSE moved
    /\ strict_times' =
         [strict_times EXCEPT
            !.left = @ /\ (upd_loc.ok => upd_loc.t > left_encoder.last_time_us)]
    /\ upd_pc' = "readR"
    /\ enc_obs' = StepObs
    /\ UNCHANGED <<right_encoder, pcnt, now_us, upd_loc, turns>>
    /\ UNCHANGED <<relayVars, configVars, mapperVars, motorVars, loopVars,
                   telemetryVars>>
    /\ UNCHANGED <<tunableVars, platformVars>>

\* The body of if (ret == ESP_OK) for the right wheel, and the return.
UpdateStoreRight ==
    /\ upd_pc = "storeR"
    /\ right_encoder' = UpdateWheel(right_encoder, upd_loc.ok, upd_loc.count,
                                    upd_loc.t)
    /\ moved' = IF upd_loc.ok THEN [moved EXCEPT !.right = 0] ELSE moved
    /\ strict_times' =
         [strict_times EXCEPT
            !.right = @ /\ (upd_loc.ok => upd_loc.t > right_encoder.last_time_us)]
    /\ upd_pc' = "idle"
    /\ enc_obs' = StepObs
    /\ UNCHANGED <<left_encoder, pcnt, now_us, upd_loc, turns>>
    /\ UNCHANGED <<relayVars, configVars, mapperVars, motorVars, loopVars,
                   telemetryVars>>
    /\ UNCHANGED <<tunableVars, platformVars>>

NextEncoderRace ==
    \/ UpdateBegin
    \/ UpdateRead
    \/ UpdateStoreLeft
    \/ UpdateStoreRight
    \/ WheelTurn
    \/ EncoderClear

SpecEncoderRace == InitEncoder /\ [][NextEncoderRace]_vars

\* C18 (as claimed): no clear runs while encoder_update is between its
\* first and its last statement.
C18_ClearSequenced ==
    enc_obs.op = "clear" => ~enc_obs.busy

\* The clear of the left wheel is lost: the counter is at zero and the
\* update that had read the count before the clear has written it back as
\* the baseline.
C18_LostClear ==
    /\ upd_pc = "readR"
    /\ pcnt.left = 0
    /\ left_encoder.last_count # 0
    /\ left_encoder.distance_m # 0

-----------------------------------------------------------------------------
(* SpecLoop: the control loop of Spec with comparator writes that may      *)
(* fail.  motor_set_left, motor_set_right and motor_stop return an         *)
(* esp_err_t; motor_control_task does not look at it.  The task is         *)
(* scheduled fairly and the tick count advances.                           *)

\* motor_set_left / motor_set_right with the results of its two writes: a
\* failed write leaves the comparator, ret is the or of the two results.
MotorSetRet(motor, duty, ok1, ok2) ==
    LET w == MotorWrites(duty)
        m1 == IF ok1 THEN ApplyWrite(motor, w[1]) ELSE motor
        m2 == IF ok2 THEN ApplyWrite(m1, w[2]) ELSE m1
    IN  [motor |-> m2, ret |-> IF ok1 /\ ok2 THEN 0 ELSE 1]

MaxFails == 2

\* The results of the two writes of the left and of the right motor call
\* of one cycle; a write fails only while fewer than MaxFails cycles have
\* seen a failure.
WriteResults ==
    IF fails < MaxFails THEN BOOLEAN \X BOOLEAN \X BOOLEAN \X BOOLEAN
    ELSE {<<TRUE, TRUE, TRUE, TRUE>>}

Failed(ret) == ret.left # 0 \/ ret.right # 0

\* A task that leaves its loop when a motor call has failed.
CycleOutcome_abort(ret) ==
    IF ret.left = 0 /\ ret.right = 0 THEN "delay" ELSE "exit"

\* Where the task goes after the calls of one cycle returned ret: on to
\* vTaskDelay, the results are dropped.
CycleOutcome(ret) == "delay"

\* xQueueReceive returned pdTRUE: map, call motor_set_left and
\* motor_set_right, record the duties.
LoopReceive ==
    /\ ctl_pc = "recv"
    /\ joystick_queue # <<>>
    /\ \E ok \in WriteResults,
          out \in {fuzzy_control_process(Head(joystick_queue).angle,
                                         Head(joystick_queue).magnitude,
                                         motor_cmd)} :
         LET r == XQueueReceive(joystick_queue)
             L == MotorSetRet(left_motor, out.left_duty, ok[1], ok[2])
             R == MotorSetRet(right_motor, out.right_duty, ok[3], ok[4])
             ret == [left |-> L.ret, right |-> R.ret]
         IN  /\ joystick_queue' = r.queue
             /\ motor_cmd' = out
             /\ left_motor' = L.motor
             /\ right_motor' = R.motor
             /\ current_left_pwm' = out.left_duty
             /\ current_right_pwm' = out.right_duty
             /\ lastAct' = Act("cmd", r.item.timestamp, out.left_duty,
                               out.right_duty)
             /\ cyc_ret' = ret
             /\ fails' = IF Failed(ret) THEN fails + 1 ELSE fails
             /\ ctl_pc' = CycleOutcome(ret)
    /\ ctl_wait' = 0
    /\ UNCHANGED <<cb_pc, silence, pushCount, dropped>>
    /\ UNCHANGED <<configVars, map_last, map_ref, mot_pc, mot_call, mot_prev>>
    /\ UNCHANGED <<encoderVars, telemetryVars>>
    /\ UNCHANGED <<tunableVars, platformVars>>

\* xQueueReceive timed out: motor_stop, that is motor_set_left(0) and
\* motor_set_right(0), then the two cells are zeroed.
LoopTimeout ==
    /\ ctl_pc = "recv"
    /\ joystick_queue = <<>>
    /\ ctl_wait >= RecvTimeoutMs
    /\ \E ok \in WriteResults :
         LET L == MotorSetRet(left_motor, 0, ok[1], ok[2])
             R == MotorSetRet(right_motor, 0, ok[3], ok[4])
             ret == [left |-> L.ret, right |-> R.ret]
         IN  /\ left_motor' = L.motor
             /\ right_motor' = R.motor
             /\ cyc_ret' = ret
             /\ fails' = IF Failed(ret) THEN fails + 1 ELSE fails
             /\ ctl_pc' = CycleOutcome(ret)
    /\ current_left_pwm' = 0
    /\ current_right_pwm' = 0
    /\ lastAct' = Act("stop", 0, 0, 0)
    /\ ctl_wait' = 0
    /\ UNCHANGED <<joystick_queue, cb_pc, silence, pushCount, dropped>>
    /\ UNCHANGED <<configVars, mapperVars, mot_pc, mot_call, mot_prev>>
    /\ UNCHANGED <<encoderVars, telemetryVars>>
    /\ UNCHANGED <<tunableVars, platformVars>>

MaxLoopPush == 3

\* The client pushes at most MaxLoopPush commands in this specification.
LoopPush == pushCount < MaxLoopPush /\ WebsocketControlCallback

NextLoop ==
    \/ LoopPush
    \/ LoopReceive
    \/ LoopTimeout
    \/ ControlDelayDone
    \/ Tick

\* xQueueReceive has a command to return: LoopReceive is enabled.
ReceiveReady == ctl_pc = "recv" /\ joystick_queue # <<>>

\* WF_vars(LoopReceive), written out with its enabling condition.
FairLoopReceive == []<>~ReceiveReady \/ []<><<LoopReceive>>_vars

SpecLoop ==
    /\ Init
    /\ [][NextLoop]_vars
    /\ FairLoopReceive
    /\ WF_vars(LoopTimeout)
    /\ WF_vars(ControlDelayDone)
    /\ WF_vars(Tick)

\* The task has just called motor_stop.
StopCalled == lastAct.kind = "stop" /\ ctl_pc = "delay" /\ ctl_wait = 0

\* C19: once a motor call has returned a failure, the task still comes
\* round to call motor_stop again and again (the client's pushes end, and
\* each starvation after that ends in a motor_stop call).
C19_LoopSurvivesFailure == [](fails > 0 => []<>StopCalled)

\* motor_stop called in a cycle of its own after a command cycle in which
\* a motor call failed.
C19_Witness ==
    /\ fails > 0
    /\ pushCount > 0
    /\ StopCalled
    /\ cyc_ret = [left |-> 0, right |-> 0]

-----------------------------------------------------------------------------
(* SpecTelemetry: telemetry_task beside the relay and the control loop of  *)
(* Spec, up to a time horizon.  The two tasks run on their own cores: time *)
(* passes only while each of them is blocked, in xQueueReceive or in       *)
(* vTaskDelay.  The wheels stand and the counter reads succeed.            *)

MaxPeriods == 3
MaxTelemetryPush == 2

HorizonUs == InitGapUs + MaxPeriods * SampleUs

\* The ws_telemetry_msg_t fields this core fills in.
Snapshot(L, R) ==
    [left_pwm |-> current_left_pwm, right_pwm |-> current_right_pwm,
     left_count |-> pcnt.left, right_count |-> pcnt.right,
     left_rpm |-> L.rpm, right_rpm |-> R.rpm,
     left_distance |-> L.distance_m, right_distance |-> R.distance_m]

\* The body of the while loop down to the broadcast.
TelemetryBody ==
    LET r == encoder_update(left_encoder, right_encoder,
                            TRUE, pcnt.left, TRUE, pcnt.right, now_us)
    IN  /\ left_encoder' = r.left
        /\ right_encoder' = r.right
        /\ telemetry' = Snapshot(r.left, r.right)
        /\ tel_count' = tel_count + 1
        /\ tel_pc' = "delay"
        /\ tel_wait' = 0
        /\ UNCHANGED <<pcnt, now_us, upd_pc, upd_loc, turns, moved,
                       strict_times, enc_obs>>
        /\ UNCHANGED <<relayVars, configVars, mapperVars, motorVars, loopVars>>
        /\ UNCHANGED <<tunableVars, platformVars>>

\* A telemetry cycle that first waits for a command in the relay.
TelemetryCycle_waits ==
    /\ tel_pc = "run"
    /\ joystick_queue # <<>>
    /\ TelemetryBody

\* One cycle of telemetry_task: encoder_update, the snapshot, the
\* hand-over to websocket_server_broadcast_telemetry.
TelemetryCycle ==
    /\ tel_pc = "run"
    /\ TelemetryBody

\* vTaskDelay(pdMS_TO_TICKS(1000 / TELEMETRY_RATE_HZ)) has elapsed.
TelemetryDelayDone ==
    /\ tel_pc = "delay"
    /\ tel_wait >= TelemetryPeriodMs
    /\ tel_pc' = "run"
    /\ tel_wait' = 0
    /\ UNCHANGED <<tel_count, telemetry>>
    /\ UNCHANGED <<relayVars, configVars, mapperVars, motorVars, encoderVars,
                   loopVars>>
    /\ UNCHANGED <<tunableVars, platformVars>>

\* One tick passes while both tasks are blocked.
TickTasks ==
    /\ now_us < HorizonUs
    /\ \/ ctl_pc = "recv" /\ joystick_queue = <<>> /\ ctl_wait < RecvTimeoutMs
       \/ ctl_pc = "delay" /\ ctl_wait < ControlPeriodMs
    /\ tel_pc = "delay" /\ tel_wait < TelemetryPeriodMs
    /\ ctl_wait' = ctl_wait + TickMs
    /\ silence' = IF silence + TickMs > SilenceCap THEN SilenceCap
                  ELSE silence + TickMs
    /\ tel_wait' = tel_wait + TickMs
    /\ now_us' = now_us + TickMs * UsPerMs
    /\ UNCHANGED <<joystick_queue, ctl_pc, cb_pc, pushCount, dropped, lastAct,
                   current_left_pwm, current_right_pwm>>
    /\ UNCHANGED <<tel_pc, tel_count, telemetry>>
    /\ UNCHANGED <<left_encoder, right_encoder, pcnt, upd_pc, upd_loc, turns,
                   moved, strict_times, enc_obs>>
    /\ UNCHANGED <<configVars, mapperVars, motorVars, loopVars>>
    /\ UNCHANGED <<tunableVars, platformVars>>

\* The client pushes at most MaxTelemetryPush commands in this
\* specification.
TelemetryPush == pushCount < MaxTelemetryPush /\ WebsocketControlCallback

NextTelemetry ==
    \/ TelemetryPush
    \/ ControlReceive
    \/ ControlTimeout
    \/ ControlDelayDone
    \/ TelemetryCycle
    \/ TelemetryDelayDone
    \/ TickTasks

\* WF_vars(ControlReceive), written out with its enabling condition.
FairControlReceive == []<>~ReceiveReady \/ []<><<ControlReceive>>_vars

SpecTelemetry ==
    /\ Init
    /\ [][NextTelemetry]_vars
    /\ FairControlReceive
    /\ WF_vars(ControlTimeout)
    /\ WF_vars(ControlDelayDone)
    /\ WF_vars(TelemetryCycle)
    /\ WF_vars(TelemetryDelayDone)
    /\ WF_vars(TickTasks)

\* Milliseconds since telemetry_task started.
TelemetryElapsedMs == (now_us - InitGapUs) \div UsPerMs

\* The snapshots handed over keep pace with the time elapsed: one per
\* period that has begun.
OnePerPeriod ==
    IF tel_pc = "run"
    THEN tel_count * TelemetryPeriodMs = TelemetryElapsedMs
    ELSE (tel_count - 1) * TelemetryPeriodMs + tel_wait = TelemetryElapsedMs

\* C20: whatever the relay holds and wherever motor_control_task is, every
\* period of telemetry_task that begins ends with one encoder_update done
\* and one snapshot handed over, and the snapshots keep pace with time.
C20_TelemetryIndependent ==
    /\ []OnePerPeriod
    /\ (tel_pc = "run") ~> (tel_pc = "delay" /\ tel_wait = 0)

\* The third snapshot is handed over while motor_control_task is blocked
\* in xQueueReceive and no command was ever pushed.
C20_Witness ==
    /\ tel_count = 3
    /\ tel_pc = "delay" /\ tel_wait = 0
    /\ pushCount = 0
    /\ ctl_pc = "recv" /\ ctl_wait > 0
    /\ left_encoder.last_time_us = now_us
    /\ telemetry.left_pwm = 0

-----------------------------------------------------------------------------
(* SpecConfig: inbound messages and tunable setters beside the control     *)
(* loop of Spec.  handle_control_message and handle_config_message run in  *)
(* the one HTTP server task, so one message is handled to its end before   *)
(* the next; the setters fuzzy_control_set_curve,                          *)
(* fuzzy_control_set_inversion and encoder_set_wheel_diameter are called   *)
(* between two messages.  A JSON item is absent, a number or a string.     *)

MaxEvents == 3
MaxConfigPush == 1

Absent == [kind |-> "absent", num |-> 0, str |-> ""]
Num(n) == [kind |-> "number", num |-> n, str |-> ""]
Str(s) == [kind |-> "string", num |-> 0, str |-> s]

ModeNames == {"arcade", "tank", "car", "smooth"}

ModeOf(value) ==
    CASE value = "arcade" -> "ARCADE"
      [] value = "tank"   -> "TANK"
      [] value = "car"    -> "CAR"
      [] value = "smooth" -> "SMOOTH"

\* Mutant: setting the mode starts from the initial configuration.
fuzzy_control_set_mode_reset(c, mode) ==
    [fuzzy_control_init EXCEPT !.mode = mode]

fuzzy_control_set_mode(c, mode) == [c EXCEPT !.mode = mode]

fuzzy_control_set_curve(c, curve) == [c EXCEPT !.curve = curve]

fuzzy_control_set_inversion(c, invert_left, invert_right) ==
    [c EXCEPT !.invert_left = invert_left, !.invert_right = invert_right]

\* A callback that falls back to the normal preset on a preset name it
\* does not know.
websocket_config_callback_fallback(c, param_name, param_value) ==
    IF param_name = "control_mode"
    THEN IF param_value \in ModeNames
         THEN fuzzy_control_set_mode(c, ModeOf(param_value)) ELSE c
    ELSE IF param_name = "preset"
    THEN IF param_value \in Presets THEN ApplyPreset(c, param_value)
         ELSE ApplyPreset(c, "normal")
    ELSE c

\* websocket_config_callback(config) on configuration c: the strcmp chain.
websocket_config_callback(c, param_name, param_value) ==
    IF param_name = "control_mode"
    THEN IF param_value \in ModeNames
         THEN fuzzy_control_set_mode(c, ModeOf(param_value)) ELSE c
    ELSE IF param_name = "preset"
    THEN IF param_value \in Presets THEN ApplyPreset(c, param_value) ELSE c
    ELSE c

\* handle_config_message: the callback runs if "param" and "value" are
\* both strings.
handle_config_message(c, param, value) ==
    IF param.kind = "string" /\ value.kind = "string"
    THEN websocket_config_callback(c, param.str, value.str)
    ELSE c

\* handle_control_message: the callback runs if "angle" and "magnitude"
\* are both numbers; a missing timestamp is sent on as 0.
handle_control_message(q, angle, magnitude, ts) ==
    IF angle.kind = "number" /\ magnitude.kind = "number"
    THEN XQueueSend(q, [angle |-> angle.num, magnitude |-> magnitude.num,
                        timestamp |-> IF ts.kind = "absent" THEN 0 ELSE ts.num],
                    SendTicksToWait)
    ELSE [queue |-> q, res |-> "none"]

ParamItems == {Str("control_mode"), Str("preset"), Str("speed_curve"), Absent}
ValueItems == {Str("tank"), Str("turbo"), Num(1)} \cup {Str(p) : p \in Presets}
AngleItems == {Num(0), Absent, Str("90")}
MagnitudeItems == {Num(1000), Absent}
CurveChoices == {"CUBIC", "SQRT"}
InversionChoices == {<<TRUE, FALSE>>, <<FALSE, TRUE>>}
WheelDiametersMm == {72}

\* The observer's record of an event.
Event(op, ok, param, value, by) ==
    [n |-> ws_obs.n + 1, op |-> op, ok |-> ok, param |-> param,
     value |-> value, curve_by |-> by, before |-> Tunables(ws_obs.curve_by)]

\* A config message that names a parameter and a value the rover knows.
ConfigRecognised(param, value) ==
    \/ param = Str("control_mode") /\ value \in {Str(m) : m \in ModeNames}
    \/ param = Str("preset") /\ value \in {Str(p) : p \in Presets}

\* One config message handled by handle_config_message.
ConfigMessage ==
    /\ ws_obs.n < MaxEvents
    /\ \E param \in ParamItems, value \in ValueItems :
         /\ current_config' = handle_config_message(current_config, param, value)
         /\ ws_obs' = Event("config", ConfigRecognised(param, value),
                            param.str, value.str,
                            IF param = Str("preset") /\ value.str \in Presets
                            THEN "preset" ELSE ws_obs.curve_by)
    /\ UNCHANGED <<cfg_pc, proc_pc, proc_in, proc_rd, wheel_diameter_mm,
                   wheel_circumference_m>>
    /\ UNCHANGED platformVars
    /\ UNCHANGED <<relayVars, mapperVars, motorVars>>
    /\ UNCHANGED <<encoderVars, loopVars, telemetryVars>>

\* One control message handled by handle_control_message.
ControlMessage ==
    /\ ws_obs.n < MaxEvents
    /\ pushCount < MaxConfigPush
    /\ \E angle \in AngleItems, magnitude \in MagnitudeItems :
         LET r == handle_control_message(joystick_queue, angle, magnitude,
                                         Num(pushCount + 1))
         IN  /\ joystick_queue' = r.queue
             /\ pushCount' = IF r.res = "none" THEN pushCount ELSE pushCount + 1
             /\ silence' = IF r.res = "none" THEN silence ELSE 0
             /\ dropped' = IF r.res = "errQUEUE_FULL"
                           THEN dropped \cup {pushCount + 1} ELSE dropped
             /\ ws_obs' = Event("control",
                                angle.kind = "number" /\ magnitude.kind = "number",
                                "", "", ws_obs.curve_by)
    /\ UNCHANGED <<ctl_pc, ctl_wait, cb_pc, current_left_pwm, current_right_pwm,
                   lastAct, wheel_diameter_mm, wheel_circumference_m>>
    /\ UNCHANGED platformVars
    /\ UNCHANGED <<configVars, mapperVars, motorVars>>
    /\ UNCHANGED <<encoderVars, loopVars, telemetryVars>>

\* fuzzy_control_set_curve(curve).
SetCurve ==
    /\ ws_obs.n < MaxEvents
    /\ \E curve \in CurveChoices :
         /\ current_config' = fuzzy_control_set_curve(current_config, curve)
         /\ ws_obs' = Event("set_curve", TRUE, "", "", "set_curve")
    /\ UNCHANGED <<cfg_pc, proc_pc, proc_in, proc_rd, wheel_diameter_mm,
                   wheel_circumference_m>>
    /\ UNCHANGED platformVars
    /\ UNCHANGED <<relayVars, mapperVars, motorVars>>
    /\ UNCHANGED <<encoderVars, loopVars, telemetryVars>>

\* fuzzy_control_set_inversion(invert_left, invert_right).
SetInversion ==
    /\ ws_obs.n < MaxEvents
    /\ \E inv \in InversionChoices :
         /\ current_config' = fuzzy_control_set_inversion(current_config,
                                                          inv[1], inv[2])
         /\ ws_obs' = Event("set_inversion", TRUE, "", "", ws_obs.curve_by)
    /\ UNCHANGED <<cfg_pc, proc_pc, proc_in, proc_rd, wheel_diameter_mm,
                   wheel_circumference_m>>
    /\ UNCHANGED platformVars
    /\ UNCHANGED <<relayVars, mapperVars, motorVars>>
    /\ UNCHANGED <<encoderVars, loopVars, telemetryVars>>

\* encoder_set_wheel_diameter(diameter_mm).
SetWheelDiameter ==
    /\ ws_obs.n < MaxEvents
    /\ \E d \in WheelDiametersMm :
         /\ wheel_diameter_mm' = encoder_set_wheel_diameter(d).diameter
         /\ wheel_circumference_m' =
              encoder_set_wheel_diameter(d).circumference
         /\ ws_obs' = Event("set_wheel_diameter", TRUE, "", "", ws_obs.curve_by)
    /\ UNCHANGED <<relayVars, configVars, mapperVars, motorVars>>
    /\ UNCHANGED <<encoderVars, loopVars, telemetryVars>>
    /\ UNCHANGED platformVars

NextConfig ==
    \/ ConfigMessage
    \/ ControlMessage
    \/ SetCurve
    \/ SetInversion
    \/ SetWheelDiameter
    \/ ControlReceive
    \/ ControlTimeout
    \/ ControlDelayDone
    \/ Tick

SpecConfig == Init /\ [][NextConfig]_vars

\* The last event was a config message that applied a preset.
PresetApplied ==
    ws_obs.op = "config" /\ ws_obs.param = "preset" /\ ws_obs.value \in Presets

\* The preset table as the specification prints it, in thousandths.
TableRow(p) ==
    CASE p = "gentle"     -> <<"SMOOTH", "QUADRATIC", 100, 500, 180, 40>>
      [] p = "normal"     -> <<"ARCADE", "QUADRATIC", 80, 700, 255, 35>>
      [] p = "aggressive" -> <<"TANK", "LINEAR", 50, 1000, 255, 30>>
      [] p = "precision"  -> <<"CAR", "CUBIC", 80, 600, 150, 40>>

\* C22: after a preset was applied, whatever the configuration was
\* before, the six fields equal the preset's row of the table, with
\* min_duty <= max_duty <= 255 and dead_zone, turn_factor within [0, 1].
C22_PresetTable ==
    PresetApplied =>
        /\ \A i \in 1..Len(PresetFields) :
             current_config[PresetFields[i]] = TableRow(ws_obs.value)[i]
        /\ current_config.min_duty <= current_config.max_duty
        /\ current_config.max_duty <= 255
        /\ current_config.dead_zone >= 0 /\ current_config.dead_zone <= Scale
        /\ current_config.turn_factor >= 0 /\ current_config.turn_factor <= Scale

\* The gentle preset applied to a configuration that differed from it in
\* each of the six fields and had an inversion set.
C22_Witness ==
    /\ PresetApplied
    /\ ws_obs.value = "gentle"
    /\ \A i \in 1..Len(PresetFields) :
         ws_obs.before.config[PresetFields[i]] # current_config[PresetFields[i]]
    /\ ws_obs.before.config.invert_left \/ ws_obs.before.config.invert_right
    /\ current_config.min_duty = 40

\* C23 (as claimed): a preset leaves invert_left, invert_right, the wheel
\* diameter and a curve selected with fuzzy_control_set_curve as they were.
C23_TunablesUntouched ==
    PresetApplied =>
        /\ current_config.invert_left = ws_obs.before.config.invert_left
        /\ current_config.invert_right = ws_obs.before.config.invert_right
        /\ wheel_diameter_mm = ws_obs.before.wheel
        /\ ws_obs.before.curve_by = "set_curve" =>
             current_config.curve = ws_obs.before.config.curve

\* C23 (amended): a preset leaves invert_left, invert_right and the wheel
\* diameter as they were; the curve becomes the preset's curve, also when
\* it had been selected with fuzzy_control_set_curve.
C23_InversionAndWheelUntouched ==
    PresetApplied =>
        /\ current_config.invert_left = ws_obs.before.config.invert_left
        /\ current_config.invert_right = ws_obs.before.config.invert_right
        /\ wheel_diameter_mm = ws_obs.before.wheel
        /\ current_config.curve = TableRow(ws_obs.value)[2]

\* A preset applied after fuzzy_control_set_curve and
\* fuzzy_control_set_inversion: the inversion is kept, the curve replaced.
C23_Witness ==
    /\ PresetApplied
    /\ ws_obs.before.curve_by = "set_curve"
    /\ ws_obs.before.config.invert_left
    /\ current_config.invert_left
    /\ current_config.curve # ws_obs.before.config.curve

\* C24: a control message without a numeric angle or magnitude, and a
\* config message whose parameter or value the rover does not know, leave
\* the configuration, the relay, the duty cells and the comparators as
\* they were.
C24_MalformedNoChange ==
    [][(ws_obs'.n # ws_obs.n /\ ws_obs'.op \in {"control", "config"}
          /\ ~ws_obs'.ok) =>
        UNCHANGED <<current_config, joystick_queue, pushCount,
                    current_left_pwm, current_right_pwm,
                    left_motor, right_motor>>]_vars

\* A config message naming control_mode with a value that is no mode
\* arrived while the rover was turning under a preset other than the
\* initial one; nothing changed.
C24_Witness ==
    /\ ws_obs.op = "config" /\ ~ws_obs.ok
    /\ ws_obs.param = "control_mode" /\ ws_obs.value = "gentle"
    /\ current_config = ws_obs.before.config
    /\ current_config.mode # "ARCADE"
    /\ current_left_pwm # 0
    /\ left_motor # [fwd |-> 0, bwd |-> 0]

\* Every field of the configuration outside the given ones has the value
\* it had before the last event.
SameExcept(fields) ==
    \A f \in (DOMAIN current_config) \ fields :
        current_config[f] = ws_obs.before.config[f]

\* The last event was a config message that set the control mode.
ModeSet ==
    /\ ws_obs.op = "config" /\ ws_obs.ok
    /\ ws_obs.param = "control_mode"

\* C32: a control_mode config event changes only the mode field,
\* fuzzy_control_set_curve only curve, fuzzy_control_set_inversion only
\* invert_left and invert_right; every other field keeps its value.
C32_SetterFrame ==
    /\ (ModeSet =>
          /\ SameExcept({"mode"})
          /\ current_config.mode = ModeOf(ws_obs.value))
    /\ (ws_obs.op = "set_curve" => SameExcept({"curve"}))
    /\ (ws_obs.op = "set_inversion" =>
          SameExcept({"invert_left", "invert_right"}))

\* A control_mode event changed the mode of a configuration that a preset
\* other than the initial one and an inversion call had shaped; their
\* values are still there.
C32_Witness ==
    /\ ModeSet
    /\ ws_obs.value = "tank"
    /\ ws_obs.before.config.mode = "SMOOTH"
    /\ current_config.mode = "TANK"
    /\ current_config.invert_left
    /\ current_config.max_duty = 180
    /\ current_config.curve = "QUADRATIC"

-----------------------------------------------------------------------------
(* SpecOdometry: encoder_set_wheel_diameter called between samples of      *)
(* wheels that turn by whole multiples of three revolutions                *)
(* (ENCODER_CPR = 4000 / 3 counts is no whole number; three revolutions    *)
(* are CprNum = 4000 counts).                                              *)

\* The diameter the README documents as the default, in millimetres.
DocumentedWheelDiameterMm == 72

\* Displacements in counts over one sampling interval: three revolutions
\* forward, three back, six forward, standing.
RevMoves == {[left |-> CprNum, right |-> 0],
             [left |-> -CprNum, right |-> CprNum],
             [left |-> 2 * CprNum, right |-> -CprNum]}

\* The wheels turn by whole revolutions between two calls of
\* encoder_update.
WheelTurnRevs ==
    /\ turns < MaxTurns
    /\ upd_pc = "idle"
    /\ \E m \in RevMoves :
         /\ pcnt' = [left |-> PcntCount(pcnt.left, m.left),
                     right |-> PcntCount(pcnt.right, m.right)]
         /\ moved' = [left |-> moved.left + m.left,
                      right |-> moved.right + m.right]
    /\ now_us' = now_us + SampleUs
    /\ turns' = turns + 1
    /\ enc_obs' = [NoEncObs EXCEPT !.op = "turn"]
    /\ UNCHANGED <<left_encoder, right_encoder, upd_pc, upd_loc, strict_times>>
    /\ UNCHANGED <<relayVars, configVars, mapperVars, motorVars, loopVars,
                   telemetryVars>>
    /\ UNCHANGED <<tunableVars, platformVars>>

NextOdometry == SetWheelDiameter \/ WheelTurnRevs \/ EncoderUpdate

SpecOdometry == InitEncoder /\ [][NextOdometry]_vars

\* The last encoder_update sampled the left wheel three revolutions on.
ThreeRevolutionsSampled ==
    /\ enc_obs.op = "update"
    /\ enc_obs.left.ok
    /\ enc_obs.left.delta_time_us > 0
    /\ enc_obs.left.delta_count = CprNum

\* distance_m of the left wheel grew by three times the circumference of
\* a wheel of the given diameter.
ThreeCircumferencesAdded(diameter_mm) ==
    left_encoder.distance_m - enc_obs.left.before.distance_m
        = CprDen * CprNum * Circumference(diameter_mm)

\* C31 (as claimed): the circumference is pi * d / 1000 of the diameter in
\* use, an encoder_update over whole revolutions adds that circumference
\* for each revolution, and while encoder_set_wheel_diameter has not been
\* called the diameter in use is the documented 72 mm.
C31_WheelDiameter ==
    /\ wheel_circumference_m = Circumference(wheel_diameter_mm)
    /\ (ThreeRevolutionsSampled => ThreeCircumferencesAdded(wheel_diameter_mm))
    /\ (ws_obs.n = 0 => wheel_diameter_mm = DocumentedWheelDiameterMm)

-----------------------------------------------------------------------------
(* SpecDeadZone: apply_dead_zone called again and again, on a dead zone    *)
(* from the whole documented range 0.0 to 1.0 (fuzzy_control.h:27, :103)   *)
(* and a magnitude from 0.0 to 1.0. One earlier call is kept beside the    *)
(* last one so that two results can be compared.                           *)

DeadZones == {0, 80, 500, 1000}
DeadZoneMagnitudes == {0, 80, 300, 500, 750, 1000}

ApplyDeadZoneCall ==
    /\ \E magnitude \in DeadZoneMagnitudes, dead_zone \in DeadZones :
         dz_call' = [valid |-> TRUE, magnitude |-> magnitude,
                     dead_zone |-> dead_zone,
                     out |-> apply_dead_zone_ieee(magnitude, dead_zone)]
    /\ UNCHANGED <<dz_ref, norm>>
    /\ UNCHANGED <<snapshotVars, startupVars, clientVars>>
    /\ UNCHANGED <<relayVars, configVars, mapperVars, motorVars, encoderVars,
                   loopVars, telemetryVars, tunableVars>>

DeadZoneKeep ==
    /\ dz_call.valid
    /\ dz_ref' = dz_call
    /\ UNCHANGED <<dz_call, norm>>
    /\ UNCHANGED <<snapshotVars, startupVars, clientVars>>
    /\ UNCHANGED <<relayVars, configVars, mapperVars, motorVars, encoderVars,
                   loopVars, telemetryVars, tunableVars>>

NextDeadZone == ApplyDeadZoneCall \/ DeadZoneKeep

SpecDeadZone == Init /\ [][NextDeadZone]_vars

\* The call rescales: magnitude lies in [dead_zone, 1].
Rescales(c) ==
    c.valid /\ c.dead_zone <= c.magnitude /\ c.magnitude <= Scale

\* C33: for every dead_zone in [0, 1], 1 included, and every magnitude in
\* [dead_zone, 1], the rescaled magnitude is a defined number in [0, 1],
\* 0 at magnitude = dead_zone, 1 at magnitude = 1, and non-decreasing in
\* the magnitude.
C33_DeadZoneRescaling ==
    /\ Rescales(dz_call) =>
         /\ dz_call.out.kind = "number"
         /\ 0 <= dz_call.out.num /\ dz_call.out.num <= Scale
         /\ (dz_call.magnitude = dz_call.dead_zone => dz_call.out.num = 0)
         /\ (dz_call.magnitude = Scale => dz_call.out.num = Scale)
    /\ (/\ Rescales(dz_call) /\ Rescales(dz_ref)
        /\ dz_ref.dead_zone = dz_call.dead_zone
        /\ dz_ref.magnitude <= dz_call.magnitude) =>
         /\ dz_ref.out.kind = "number" /\ dz_call.out.kind = "number"
         /\ dz_ref.out.num <= dz_call.out.num

-----------------------------------------------------------------------------
(* SpecNormalize: normalize_angle, one loop pass per step.                 *)
(*                                                                         *)
(* An angle of a few turns is held in whole degrees with 2 pi = 360, as in *)
(* the mapper above, and its additions are taken as exact.                 *)
(* A float of 2^24 rad or more is a whole number of radians, a multiple of *)
(* its unit in the last place 2^(e-23) for a value in [2^e, 2^(e+1)); such *)
(* an angle is held in whole radians, and angle -= 2.0f * M_PI stores the  *)
(* float nearest to the exact difference.                                  *)

Deg(v) == [unit |-> "deg", v |-> v]

Rad(v) == [unit |-> "rad", v |-> v]

TwoPiMilli == 6283
FloatIntegerFrom == 16777216

\* Unit in the last place of the float v rad, |v| >= 2^24.
RECURSIVE FloatUlp(_)
FloatUlp(v) ==
    IF Abs(v) < FloatIntegerFrom THEN 1 ELSE 2 * FloatUlp(Abs(v) \div 2)

\* The number of units in the last place nearest to 2 pi.
UlpsOfTwoPi(ulp) == (2 * TwoPiMilli + 1000 * ulp) \div (2000 * ulp)

\* The float stored by angle += sign * 2 pi. The lowest float of a binade
\* has the finer grid of the binade below between it and zero.
FloatAddTwoPi(angle, sign) ==
    IF angle.unit = "deg" THEN Deg(angle.v + sign * 360)
    ELSE LET ulp == FloatUlp(angle.v)
             towards_zero == (angle.v > 0) = (sign < 0)
             grid == IF towards_zero /\ Abs(angle.v) = ulp * (FloatIntegerFrom \div 2)
                     THEN ulp \div 2 ELSE ulp
         IN  Rad(angle.v + sign * grid * UlpsOfTwoPi(grid))

\* angle >= 2.0f * M_PI
AtLeastTwoPi(angle) ==
    IF angle.unit = "deg" THEN angle.v >= 360
    ELSE angle.v > TwoPiMilli \div 1000

\* Angles the relay delivers: handle_control_message casts any JSON number
\* to float. 1e9 and 2^27 + 16 are floats.
NormalizeDegrees == {45 * k : k \in -20 .. 28}
NormalizeRadians == {1000000000, 134217744, -1000000000}
NormalizeAngles == {Deg(v) : v \in NormalizeDegrees}
                     \cup {Rad(v) : v \in NormalizeRadians}

MaxNormIters == 4

\* fuzzy_control_process enters normalize_angle.
NormalizeCall ==
    /\ norm.pc \in {"idle", "done"}
    /\ \E angle \in NormalizeAngles :
         norm' = [pc |-> "while_negative", input |-> angle, angle |-> angle,
                  prev |-> angle, iters |-> 0]
    /\ UNCHANGED <<dz_call, dz_ref>>
    /\ UNCHANGED <<snapshotVars, startupVars, clientVars>>
    /\ UNCHANGED <<relayVars, configVars, mapperVars, motorVars, encoderVars,
                   loopVars, telemetryVars, tunableVars>>

\* while (angle < 0) angle += 2.0f * M_PI;
NormalizeAdd ==
    /\ norm.pc = "while_negative"
    /\ norm.angle.v < 0
    /\ norm.iters < MaxNormIters
    /\ norm' = [norm EXCEPT !.angle = FloatAddTwoPi(norm.angle, 1),
                            !.prev = norm.angle, !.iters = @ + 1]
    /\ UNCHANGED <<dz_call, dz_ref>>
    /\ UNCHANGED <<snapshotVars, startupVars, clientVars>>
    /\ UNCHANGED <<relayVars, configVars, mapperVars, motorVars, encoderVars,
                   loopVars, telemetryVars, tunableVars>>

\* The first loop's condition is false: on to the second loop.
NormalizeNonNegative ==
    /\ norm.pc = "while_negative"
    /\ ~(norm.angle.v < 0)
    /\ norm' = [norm EXCEPT !.pc = "while_large"]
    /\ UNCHANGED <<dz_call, dz_ref>>
    /\ UNCHANGED <<snapshotVars, startupVars, clientVars>>
    /\ UNCHANGED <<relayVars, configVars, mapperVars, motorVars, encoderVars,
                   loopVars, telemetryVars, tunableVars>>

\* while (angle >= 2.0f * M_PI) angle -= 2.0f * M_PI;
NormalizeSub ==
    /\ norm.pc = "while_large"
    /\ AtLeastTwoPi(norm.angle)
    /\ norm.iters < MaxNormIters
    /\ norm' = [norm EXCEPT !.angle = FloatAddTwoPi(norm.angle, -1),
                            !.prev = norm.angle, !.iters = @ + 1]
    /\ UNCHANGED <<dz_call, dz_ref>>
    /\ UNCHANGED <<snapshotVars, startupVars, clientVars>>
    /\ UNCHANGED <<relayVars, configVars, mapperVars, motorVars, encoderVars,
                   loopVars, telemetryVars, tunableVars>>

\* return angle;
NormalizeReturn ==
    /\ norm.pc = "while_large"
    /\ ~AtLeastTwoPi(norm.angle)
    /\ norm' = [norm EXCEPT !.pc = "done"]
    /\ UNCHANGED <<dz_call, dz_ref>>
    /\ UNCHANGED <<snapshotVars, startupVars, clientVars>>
    /\ UNCHANGED <<relayVars, configVars, mapperVars, motorVars, encoderVars,
                   loopVars, telemetryVars, tunableVars>>

NextNormalize ==
    \/ NormalizeCall
    \/ NormalizeAdd
    \/ NormalizeNonNegative
    \/ NormalizeSub
    \/ NormalizeReturn

SpecNormalize == Init /\ [][NextNormalize]_vars

\* A loop whose condition holds and whose body stores the angle it read:
\* every later pass does the same, and the call never returns.
NormalizeSpins ==
    \/ /\ norm.pc = "while_negative" /\ norm.angle.v < 0
       /\ FloatAddTwoPi(norm.angle, 1) = norm.angle
    \/ /\ norm.pc = "while_large" /\ AtLeastTwoPi(norm.angle)
       /\ FloatAddTwoPi(norm.angle, -1) = norm.angle

\* C34: normalize_angle terminates on every angle the relay delivers, and
\* its result lies in [0, 2 pi) and is congruent to the angle modulo 2 pi,
\* so that the control loop cannot hang inside the mapper.
C34_NormalizeTerminates ==
    /\ ~NormalizeSpins
    /\ norm.pc = "done" =>
         /\ norm.angle.unit = norm.input.unit
         /\ 0 <= norm.angle.v /\ ~AtLeastTwoPi(norm.angle)
         /\ norm.angle.unit = "deg" =>
              /\ (norm.angle.v - norm.input.v) % 360 = 0
              /\ norm.angle.v = normalize_angle(norm.input.v)

-----------------------------------------------------------------------------
(* SpecSnapshot: motor_control_task and telemetry_task on their two cores, *)
(* store by store and read by read. The control cycle writes               *)
(* current_left_pwm and then current_right_pwm (main.c:206-207, 210-211);  *)
(* the telemetry cycle reads them in the same order (main.c:229-230). No   *)
(* lock is taken by either. The waits of the two loops are left out:       *)
(* either task may be anywhere in its cycle when the other one runs.       *)

MaxSnapshotPush == 3
MaxSnapshots == 3

SnapshotPush == pushCount < MaxSnapshotPush /\ WebsocketControlCallback

\* xQueueReceive returned pdTRUE: the cycle down to the store of
\* current_left_pwm.
SnapshotReceive ==
    /\ ctl_pc = "recv"
    /\ joystick_queue # <<>>
    /\ LET r == XQueueReceive(joystick_queue)
           out == fuzzy_control_process(r.item.angle, r.item.magnitude, motor_cmd)
       IN  /\ joystick_queue' = r.queue
           /\ motor_cmd' = out
           /\ left_motor' = MotorSet(left_motor, out.left_duty)
           /\ right_motor' = MotorSet(right_motor, out.right_duty)
           /\ current_left_pwm' = out.left_duty
           /\ pending_pwm' = <<out.left_duty, out.right_duty>>
    /\ ctl_pc' = "store_right"
    /\ UNCHANGED <<ctl_wait, cb_pc, current_right_pwm, silence, pushCount,
                   dropped, lastAct>>
    /\ UNCHANGED <<configVars, map_last, map_ref, mot_pc, mot_call, mot_prev>>
    /\ UNCHANGED <<encoderVars, loopVars, telemetryVars, tunableVars>>
    /\ UNCHANGED <<helperVars, startupVars, clientVars, cycle_pairs>>

\* xQueueReceive timed out: motor_stop and the store of 0 to
\* current_left_pwm.
SnapshotTimeout ==
    /\ ctl_pc = "recv"
    /\ joystick_queue = <<>>
    /\ left_motor' = MotorSet(left_motor, 0)
    /\ right_motor' = MotorSet(right_motor, 0)
    /\ current_left_pwm' = 0
    /\ pending_pwm' = <<0, 0>>
    /\ ctl_pc' = "store_right"
    /\ UNCHANGED <<joystick_queue, ctl_wait, cb_pc, current_right_pwm, silence,
                   pushCount, dropped, lastAct>>
    /\ UNCHANGED <<configVars, mapperVars, mot_pc, mot_call, mot_prev>>
    /\ UNCHANGED <<encoderVars, loopVars, telemetryVars, tunableVars>>
    /\ UNCHANGED <<helperVars, startupVars, clientVars, cycle_pairs>>

\* The store of current_right_pwm ends the cycle's record; vTaskDelay and
\* back to xQueueReceive.
SnapshotStoreRight ==
    /\ ctl_pc = "store_right"
    /\ current_right_pwm' = pending_pwm[2]
    /\ cycle_pairs' = cycle_pairs \cup {pending_pwm}
    /\ ctl_pc' = "recv"
    /\ UNCHANGED <<joystick_queue, ctl_wait, cb_pc, current_left_pwm, silence,
                   pushCount, dropped, lastAct>>
    /\ UNCHANGED <<configVars, mapperVars, motorVars>>
    /\ UNCHANGED <<encoderVars, loopVars, telemetryVars, tunableVars>>
    /\ UNCHANGED <<helperVars, startupVars, clientVars, pending_pwm>>

\* telemetry_task: encoder_update, telemetry = {0}, and the read of
\* current_left_pwm.
SnapshotReadLeft ==
    /\ tel_pc = "run"
    /\ tel_count < MaxSnapshots
    /\ LET r == encoder_update(left_encoder, right_encoder,
                               TRUE, pcnt.left, TRUE, pcnt.right, now_us)
       IN  /\ left_encoder' = r.left
           /\ right_encoder' = r.right
    /\ telemetry' = [NoTelemetry EXCEPT !.left_pwm = current_left_pwm]
    /\ tel_pc' = "read_right"
    /\ UNCHANGED <<tel_wait, tel_count>>
    /\ UNCHANGED <<pcnt, now_us, upd_pc, upd_loc, turns, moved, strict_times,
                   enc_obs>>
    /\ UNCHANGED <<relayVars, configVars, mapperVars, motorVars, loopVars>>
    /\ UNCHANGED <<tunableVars, platformVars>>

\* The read of current_right_pwm, the encoder fields, the hand-over to
\* websocket_server_broadcast_telemetry; vTaskDelay and round again.
SnapshotReadRight ==
    /\ tel_pc = "read_right"
    /\ telemetry' = [Snapshot(left_encoder, right_encoder)
                       EXCEPT !.left_pwm = telemetry.left_pwm,
                              !.right_pwm = current_right_pwm]
    /\ tel_count' = tel_count + 1
    /\ tel_pc' = "run"
    /\ UNCHANGED tel_wait
    /\ UNCHANGED <<relayVars, configVars, mapperVars, motorVars, encoderVars,
                   loopVars>>
    /\ UNCHANGED <<tunableVars, platformVars>>

NextSnapshot ==
    \/ SnapshotPush
    \/ SnapshotReceive
    \/ SnapshotTimeout
    \/ SnapshotStoreRight
    \/ SnapshotReadLeft
    \/ SnapshotReadRight

SpecSnapshot == Init /\ [][NextSnapshot]_vars

\* A snapshot has been handed over.
SnapshotSent == tel_count > 0 /\ tel_pc = "run"

\* C35: under every interleaving of the two tasks, the pair (left_pwm,
\* right_pwm) of every telemetry snapshot is a pair one single control
\* cycle recorded (the pair of the static initialisers before the first
\* cycle).
C35_SnapshotPairFromOneCycle ==
    SnapshotSent => <<telemetry.left_pwm, telemetry.right_pwm>> \in cycle_pairs

-----------------------------------------------------------------------------
(* The recorded duties beside the comparators, under SpecLoop, where each  *)
(* comparator write of a cycle succeeds or fails.                          *)

\* The comparators of one motor as a duty d applies them.
AppliedDuty(motor, d) ==
    /\ motor.fwd = (IF d > 0 THEN d ELSE 0)
    /\ motor.bwd = (IF d < 0 THEN -d ELSE 0)

\* C36: at the end of every control cycle the duty d recorded for a wheel
\* and that wheel's comparators satisfy (fwd, bwd) = (max(d, 0), max(-d, 0)),
\* whatever the mapper put out and whatever the comparator writes returned.
\* The cells and the comparators change in the cycle's step only, so the
\* state after a cycle lasts until the next one.
C36_ReportedDutyIsApplied ==
    /\ AppliedDuty(left_motor, current_left_pwm)
    /\ AppliedDuty(right_motor, current_right_pwm)

-----------------------------------------------------------------------------
(* SpecStartup: app_main from motor_control_init to the creation of the    *)
(* two tasks, beside the WiFi event task, which calls wifi_event_callback  *)
(* and through it websocket_server_start once esp_wifi_start has           *)
(* succeeded, and beside a client that sends control messages as soon as a *)
(* server serves the WebSocket endpoint. websocket_server_start takes no   *)
(* lock: the test of `server` and httpd_start are two steps of a caller.   *)
(* Each library call that returns an esp_err_t succeeds or fails.          *)

MaxStartupPush == 2

InitStartup ==
    /\ RelayInit /\ ConfigInit /\ MapperInit /\ MotorInit
    /\ EncoderInit /\ LoopInit /\ TelemetryInit /\ TunableInit
    /\ HelperInit /\ SnapshotInit /\ StartupInit /\ ClientInit

\* What no step of the start-up touches.
startupFrame == <<configVars, mapperVars, encoderVars, telemetryVars,
                  tunableVars, helperVars, snapshotVars, clientVars,
                  mot_pc, mot_call, mot_prev, cyc_ret>>

serverVars == <<start_pc, wifi_started, server, httpd_running, uri_handlers,
                control_callback, queue_created, null_sends, tasks_created>>

\* The duties of the four tests of motor_test_sequence, in program order.
TestDuties == <<[left |-> 128, right |-> 128], [left |-> -128, right |-> -128],
                [left |-> 128, right |-> -128], [left |-> -128, right |-> 128]>>

TestPcs == <<"test1", "test2", "test3", "test4", "test_stop">>

\* motor_set_left(l) and motor_set_right(r) with the results ok of their
\* four comparator writes.
SetBothMotors(l, r, ok) ==
    LET L == MotorSetRet(left_motor, l, ok[1], ok[2])
        R == MotorSetRet(right_motor, r, ok[3], ok[4])
    IN  /\ left_motor' = L.motor
        /\ right_motor' = R.motor
        /\ fails' = IF L.ret # 0 \/ R.ret # 0 THEN fails + 1 ELSE fails

\* motor_control_init: configure_motor_mcpwm fails for one of the motors.
MotorControlInitFails ==
    /\ app_pc = "motor_init"
    /\ app_pc' = "returned_early"
    /\ UNCHANGED <<relayVars, serverVars, startupFrame, left_motor,
                   right_motor, fails>>

\* motor_control_init: both motors configured, then motor_stop, whose
\* result is dropped.
MotorControlInit ==
    /\ app_pc = "motor_init"
    /\ \E ok \in WriteResults : SetBothMotors(0, 0, ok)
    /\ app_pc' = "test1"
    /\ UNCHANGED <<relayVars, serverVars, startupFrame>>

\* motor_test_sequence: one of the four tests, up to its vTaskDelay.
MotorTestStep ==
    /\ \E i \in 1 .. 4 :
         /\ app_pc = TestPcs[i]
         /\ \E ok \in WriteResults :
              SetBothMotors(TestDuties[i].left, TestDuties[i].right, ok)
         /\ app_pc' = TestPcs[i + 1]
    /\ UNCHANGED <<relayVars, serverVars, startupFrame>>

\* motor_test_sequence: motor_stop, whose result is dropped, and
\* return ESP_OK.
MotorTestStop ==
    /\ app_pc = "test_stop"
    /\ \E ok \in WriteResults : SetBothMotors(0, 0, ok)
    /\ app_pc' = "wifi_init"
    /\ UNCHANGED <<relayVars, serverVars, startupFrame>>

\* wifi_manager_init
WifiManagerInit ==
    /\ app_pc = "wifi_init"
    /\ \E ok \in BOOLEAN : app_pc' = IF ok THEN "wifi_start" ELSE "returned"
    /\ UNCHANGED <<relayVars, serverVars, startupFrame, left_motor,
                   right_motor, fails>>

\* wifi_manager_register_callback and wifi_manager_start; on success
\* app_main goes on to call websocket_server_start.
WifiManagerStart ==
    /\ app_pc = "wifi_start"
    /\ \E ok \in BOOLEAN :
         IF ok
         THEN /\ wifi_started' = TRUE
              /\ app_pc' = "server_start"
              /\ start_pc' = [start_pc EXCEPT !["app_main"] = "check"]
         ELSE /\ app_pc' = "returned"
              /\ UNCHANGED <<wifi_started, start_pc>>
    /\ UNCHANGED <<server, httpd_running, uri_handlers, control_callback,
                   queue_created, null_sends, tasks_created>>
    /\ UNCHANGED <<relayVars, startupFrame, left_motor, right_motor, fails>>

\* WIFI_EVENT_AP_START or IP_EVENT_STA_GOT_IP: wifi_event_handler calls
\* wifi_event_callback, which calls websocket_server_start.
WifiEvent ==
    /\ wifi_started
    /\ start_pc["wifi_event"] = "out"
    /\ start_pc' = [start_pc EXCEPT !["wifi_event"] = "check"]
    /\ UNCHANGED <<app_pc, wifi_started, server, httpd_running, uri_handlers,
                   control_callback, queue_created, null_sends, tasks_created>>
    /\ UNCHANGED <<relayVars, startupFrame, left_motor, right_motor, fails>>

\* websocket_server_start returns ret to caller c: app_main goes on or
\* returns, wifi_event_callback drops the result.
AppAfterServerStart(c, ok) ==
    IF c = "app_main" THEN (IF ok THEN "register" ELSE "returned") ELSE app_pc

\* if (server != NULL) return ESP_OK;
ServerStartCheck(c) ==
    /\ start_pc[c] = "check"
    /\ IF server # 0
       THEN /\ start_pc' = [start_pc EXCEPT ![c] = "out"]
            /\ app_pc' = AppAfterServerStart(c, TRUE)
       ELSE /\ start_pc' = [start_pc EXCEPT ![c] = "httpd_start"]
            /\ UNCHANGED app_pc
    /\ UNCHANGED <<wifi_started, server, httpd_running, uri_handlers,
                   control_callback, queue_created, null_sends, tasks_created>>
    /\ UNCHANGED <<relayVars, startupFrame, left_motor, right_motor, fails>>

\* httpd_start(&server, &config) and, when it succeeds, the registration
\* of the two URI handlers.
ServerStartHttpd(c) ==
    /\ start_pc[c] = "httpd_start"
    /\ \E ok \in BOOLEAN :
         /\ IF ok
            THEN /\ httpd_running' = httpd_running + 1
                 /\ server' = httpd_running + 1
                 /\ uri_handlers' = uri_handlers + 1
            ELSE UNCHANGED <<httpd_running, server, uri_handlers>>
         /\ app_pc' = AppAfterServerStart(c, ok)
    /\ start_pc' = [start_pc EXCEPT ![c] = "out"]
    /\ UNCHANGED <<wifi_started, control_callback, queue_created, null_sends,
                   tasks_created>>
    /\ UNCHANGED <<relayVars, startupFrame, left_motor, right_motor, fails>>

\* websocket_server_register_control_callback and
\* websocket_server_register_config_callback
RegisterCallbacks ==
    /\ app_pc = "register"
    /\ control_callback' = TRUE
    /\ app_pc' = "queue"
    /\ UNCHANGED <<start_pc, wifi_started, server, httpd_running, uri_handlers,
                   queue_created, null_sends, tasks_created>>
    /\ UNCHANGED <<relayVars, startupFrame, left_motor, right_motor, fails>>

\* joystick_queue = xQueueCreate(10, sizeof(joystick_cmd_t))
QueueCreate ==
    /\ app_pc = "queue"
    /\ \E ok \in BOOLEAN :
         /\ queue_created' = ok
         /\ app_pc' = IF ok THEN "tasks" ELSE "returned"
    /\ UNCHANGED <<start_pc, wifi_started, server, httpd_running, uri_handlers,
                   control_callback, null_sends, tasks_created>>
    /\ UNCHANGED <<relayVars, startupFrame, left_motor, right_motor, fails>>

\* The two xTaskCreatePinnedToCore calls; app_main enters its loop.
CreateTasks ==
    /\ app_pc = "tasks"
    /\ tasks_created' = TRUE
    /\ app_pc' = "running"
    /\ UNCHANGED <<start_pc, wifi_started, server, httpd_running, uri_handlers,
                   control_callback, queue_created, null_sends>>
    /\ UNCHANGED <<relayVars, startupFrame, left_motor, right_motor, fails>>

\* A client's control message reaches handle_control_message: without a
\* registered callback it is dropped, otherwise websocket_control_callback
\* calls xQueueSend(joystick_queue, &cmd, 0), on the queue or on NULL.
ClientControlMessage ==
    /\ httpd_running > 0 /\ uri_handlers > 0
    /\ pushCount < MaxStartupPush
    /\ pushCount' = pushCount + 1
    /\ IF ~control_callback
       THEN UNCHANGED <<joystick_queue, null_sends>>
       ELSE IF ~queue_created
       THEN /\ null_sends' = null_sends + 1
            /\ UNCHANGED joystick_queue
       ELSE /\ joystick_queue' =
                 XQueueSend(joystick_queue, ClientCommand(pushCount + 1),
                            SendTicksToWait).queue
            /\ UNCHANGED null_sends
    /\ UNCHANGED <<ctl_pc, ctl_wait, cb_pc, current_left_pwm, current_right_pwm,
                   silence, dropped, lastAct>>
    /\ UNCHANGED <<app_pc, start_pc, wifi_started, server, httpd_running,
                   uri_handlers, control_callback, queue_created, tasks_created>>
    /\ UNCHANGED <<startupFrame, left_motor, right_motor, fails>>

NextStartup ==
    \/ MotorControlInitFails
    \/ MotorControlInit
    \/ MotorTestStep
    \/ MotorTestStop
    \/ WifiManagerInit
    \/ WifiManagerStart
    \/ WifiEvent
    \/ \E c \in Callers : ServerStartCheck(c)
    \/ \E c \in Callers : ServerStartHttpd(c)
    \/ RegisterCallbacks
    \/ QueueCreate
    \/ CreateTasks
    \/ ClientControlMessage

SpecStartup == InitStartup /\ [][NextStartup]_vars

\* C37: whenever a server is running with websocket_control_callback
\* registered, joystick_queue has been created, and the callback never
\* posts to a queue that does not exist yet.
C37_RelayExistsBeforeUse ==
    /\ (httpd_running > 0 /\ control_callback) => queue_created
    /\ null_sends = 0

\* C38: under every interleaving of the calls from wifi_event_callback and
\* from app_main, at most one HTTP server is started and the URI handlers
\* are registered at most once.
C38_SingleServerInstance ==
    /\ httpd_running <= 1
    /\ uri_handlers <= 1

AllComparatorsZero ==
    /\ left_motor = [fwd |-> 0, bwd |-> 0]
    /\ right_motor = [fwd |-> 0, bwd |-> 0]

\* app_main is past motor_test_sequence, or has returned after it.
PastHardwareTest ==
    app_pc \in {"wifi_init", "wifi_start", "server_start", "register", "queue",
                "tasks", "running", "returned"}

\* C40: motor_control_init and motor_test_sequence each finish with all
\* four comparators at zero: the motors are stopped when the tasks are
\* created, on every early return of app_main after the hardware test, and
\* from then on while no command has been received.
C40_StoppedAtStartup ==
    (app_pc = "test1" \/ PastHardwareTest) => AllComparatorsZero

-----------------------------------------------------------------------------
(* SpecClients: the client table of websocket_server.c under add_client    *)
(* and remove_client calls, as websocket_handler makes them on a handshake *)
(* and on a CLOSE frame, with the descriptor of the request's socket.      *)
(* Slots are numbered from 1; a free slot holds fd = 0.                    *)

ClientFds == {0, 54, 55}
MaxClientOps == 5

Slots == 1 .. WS_MAX_CLIENTS

\* find_client_slot(fd): the first slot whose fd field equals fd, connected
\* or not; 0 stands for the code's -1.
find_client_slot(fd) ==
    IF \E i \in Slots : connected_clients[i].fd = fd
    THEN CHOOSE i \in Slots :
           /\ connected_clients[i].fd = fd
           /\ \A j \in Slots : connected_clients[j].fd = fd => i <= j
    ELSE 0

\* The first slot that is not connected, 0 when the table is full.
FreeSlot ==
    IF \E i \in Slots : ~connected_clients[i].connected
    THEN CHOOSE i \in Slots :
           /\ ~connected_clients[i].connected
           /\ \A j \in Slots : ~connected_clients[j].connected => i <= j
    ELSE 0

\* add_client(fd)
AddClient ==
    /\ client_ops < MaxClientOps
    /\ \E fd \in ClientFds :
         IF FreeSlot # 0
         THEN /\ connected_clients' =
                   [connected_clients EXCEPT
                      ![FreeSlot] = [fd |-> fd, connected |-> TRUE]]
              /\ client_count' = client_count + 1
         ELSE UNCHANGED <<connected_clients, client_count>>
    /\ client_ops' = client_ops + 1
    /\ UNCHANGED <<relayVars, configVars, mapperVars, motorVars, encoderVars,
                   loopVars, telemetryVars, tunableVars>>
    /\ UNCHANGED <<helperVars, snapshotVars, startupVars>>

\* remove_client(fd)
RemoveClient ==
    /\ client_ops < MaxClientOps
    /\ \E fd \in ClientFds :
         LET idx == find_client_slot(fd)
         IN  IF idx # 0
             THEN /\ connected_clients' =
                       [connected_clients EXCEPT
                          ![idx] = [fd |-> 0, connected |-> FALSE]]
                  /\ client_count' = client_count - 1
             ELSE UNCHANGED <<connected_clients, client_count>>
    /\ client_ops' = client_ops + 1
    /\ UNCHANGED <<relayVars, configVars, mapperVars, motorVars, encoderVars,
                   loopVars, telemetryVars, tunableVars>>
    /\ UNCHANGED <<helperVars, snapshotVars, startupVars>>

NextClients == AddClient \/ RemoveClient

SpecClients == Init /\ [][NextClients]_vars

ConnectedSlots == {i \in Slots : connected_clients[i].connected}

\* C39: after every sequence of add_client and remove_client calls,
\* client_count is the number of connected slots and lies in
\* 0 .. WS_MAX_CLIENTS, so that the broadcast's test client_count == 0 skips
\* exactly when no slot is connected.
C39_ClientCountMatchesTable ==
    /\ client_count = Cardinality(ConnectedSlots)
    /\ 0 <= client_count /\ client_count <= WS_MAX_CLIENTS

====
